---------------------------- MODULE Spec2Model ----------------------------
(***************************************************************************)
(* A model of the "& Other Stories" catalog scraper.                       *)
(*                                                                         *)
(*   src/scraper.py  OtherStoriesScraper: discovery (get_all_product_urls),*)
(*                   extraction (scrape_product), the driver (run) and the *)
(*                   reconciler (delete_missing_products).                 *)
(*   src/src/scraper CategoryScraper / ProductScraper: the browser based   *)
(*                   variant of discovery and extraction.                  *)
(*                                                                         *)
(* Strings of the program are modelled by small records and sets of named  *)
(* values; every conversion the code applies to them (making a link        *)
(* absolute, stripping query and fragment, deriving an id) is an operator. *)
(***************************************************************************)
EXTENDS Integers, Sequences, FiniteSets, TLC

(***************************************************************************)
(* Bounds of the model.                                                    *)
(***************************************************************************)
\* get_all_product_urls sets max_pages = 20 (src/scraper.py:355); the model
\* paginates over a shorter catalog.
max_pages == 3

\* largest item limit (--limit) tried; 0 stands for None (no limit)
MaxLimit == 3

(***************************************************************************)
(* URLs.  A link is [form, path, suffix]:                                  *)
(*   form   "abs"  https://www.stories.com/en-eu/product/<path>            *)
(*          "root" /en-eu/product/<path>                                   *)
(*          "rel"  ../product/<path>                                       *)
(*   suffix ""  |  "?v=1" (a query string)  |  "#top" (a fragment)         *)
(* The path "set/box-4/" has a further directory below /product/; the path *)
(* "about/" stands for a link that does not contain "/product/".           *)
(***************************************************************************)
ProductPaths == {"dress-1/", "coat-2/", "skirt-1/", "gift-card/", "set/box-4/"}

Paths == ProductPaths \cup {"about/"}

Link(f, p, s) == [form |-> f, path |-> p, suffix |-> s]

\* '/product/' in href
HasProductPath(href) == href.path \in ProductPaths

\* urljoin(BASE_URL, href) / href / urljoin(url, href): all three give the
\* absolute URL of the same path, the suffix is kept
MakeAbsolute(href) == [href EXCEPT !.form = "abs"]

\* full_url.split('#')[0].split('?')[0]
CleanUrl(u) == [u EXCEPT !.suffix = ""]

\* the normal form the specification speaks of: absolute, no query, no fragment
Normalize(u) == CleanUrl(MakeAbsolute(u))

(***************************************************************************)
(* Sequence helpers.                                                       *)
(***************************************************************************)
Range(s) == {s[i] : i \in 1..Len(s)}

Min(a, b) == IF a <= b THEN a ELSE b

\* s[:n]
Take(s, n) == SubSeq(s, 1, Min(n, Len(s)))

RECURSIVE AppendNew(_, _)
\* for x in xs: if x not in acc: acc.append(x)
AppendNew(acc, xs) ==
    IF xs = <<>> THEN acc
    ELSE AppendNew(IF Head(xs) \in Range(acc) THEN acc ELSE Append(acc, Head(xs)),
                   Tail(xs))

RECURSIVE MapSeq(_, _)
MapSeq(Op(_), s) == IF s = <<>> THEN <<>> ELSE <<Op(Head(s))>> \o MapSeq(Op, Tail(s))

RECURSIVE FilterSeq(_, _)
FilterSeq(Test(_), s) ==
    IF s = <<>> THEN <<>>
    ELSE (IF Test(Head(s)) THEN <<Head(s)>> ELSE <<>>) \o FilterSeq(Test, Tail(s))

\* list(set(xs)): the elements of xs, each once, in the order the set iterates
ListOfSet(S) ==
    { s \in [1..Cardinality(S) -> S] : \A i, j \in 1..Cardinality(S) : s[i] = s[j] => i = j }

(***************************************************************************)
(* Listing pages.  A page is what get_page returned for it:                *)
(*   ok       FALSE when get_page returned None                            *)
(*   anchors  the href of every element of the first selector that matches *)
(*   ld       the 'url' values of the JSON-LD blocks of the page           *)
(***************************************************************************)
ListingPage(ok, anchors, ld) == [ok |-> ok, anchors |-> anchors, ld |-> ld]

ListingPages ==
    { ListingPage(FALSE, <<>>, <<>>),
      ListingPage(TRUE, <<>>, <<>>),
      ListingPage(TRUE, <<Link("root", "dress-1/", ""), Link("root", "coat-2/", "")>>, <<>>),
      ListingPage(TRUE, <<Link("abs", "dress-1/", "?v=1"), Link("root", "dress-1/", "")>>, <<>>),
      ListingPage(TRUE, <<Link("rel", "coat-2/", "#top"), Link("root", "skirt-1/", "")>>, <<>>),
      ListingPage(TRUE, <<Link("root", "skirt-1/", "")>>, <<Link("abs", "dress-1/", "?v=1")>>),
      ListingPage(TRUE, <<Link("root", "gift-card/", "")>>, <<Link("abs", "gift-card/", "")>>),
      ListingPage(TRUE, <<Link("abs", "coat-2/", "")>>, <<Link("abs", "about/", "")>>) }

(***************************************************************************)
(* Values.  A dict of the program is a record whose missing keys hold      *)
(* Absent; None is the value None.  A vector is modelled by its           *)
(* dimension.                                                              *)
(***************************************************************************)
None == [none |-> TRUE]

Absent == "<absent>"

\* what a call gives when it raises instead of returning
Exception == [exception |-> TRUE]

\* the value of insert_out when the store was not asked at all
NotAsked == "not_asked"

Vector(dim) == [dim |-> dim]

NoUrl == Link("none", "", "")

(***************************************************************************)
(* Detail pages.  A detail page is what get_page returned for it:          *)
(*   ok          FALSE when get_page returned None                         *)
(*   ld          the first JSON-LD block with "@type": "Product":          *)
(*                 present  there is one                                   *)
(*                 name     "none" no name key | "empty" | "val"           *)
(*                 offers   "none" | "one" an offer with a numeric price   *)
(*                          | "bad" an offer whose price float() rejects   *)
(*                 image    it has a non-empty image                       *)
(*   og_title    <meta property="og:title" content=...> is there           *)
(*   title_tag   <title> is there and has text                             *)
(*   price_meta  <meta property="product:price:amount"> is there           *)
(*   og_image    "none" | "empty" (no content) | "url"                     *)
(*   img         an <img> with a media.stories.com source is there         *)
(***************************************************************************)
JsonLd(present, name, offers, image) ==
    [present |-> present, name |-> name, offers |-> offers, image |-> image]

JsonLdBlocks ==
    {JsonLd(FALSE, "none", "none", FALSE)}
    \cup {JsonLd(TRUE, n, o, i) : n \in {"none", "empty", "val"},
                                  o \in {"none", "one", "bad"}, i \in BOOLEAN}

DetailPage(ld, og_title, title_tag, price_meta, og_image, img) ==
    [ok |-> TRUE, ld |-> ld, og_title |-> og_title, title_tag |-> title_tag,
     price_meta |-> price_meta, og_image |-> og_image, img |-> img]

DetailPages ==
    [ok : {TRUE}, ld : JsonLdBlocks, og_title : BOOLEAN, title_tag : BOOLEAN,
     price_meta : BOOLEAN, og_image : {"none", "empty", "url"}, img : BOOLEAN]

\* get_page returned None
NoSoup ==
    [ok |-> FALSE, ld |-> JsonLd(FALSE, "none", "none", FALSE), og_title |-> FALSE,
     title_tag |-> FALSE, price_meta |-> FALSE, og_image |-> "none", img |-> FALSE]

\* the detail pages the driver meets in a run: a complete page and a page
\* without any image
RunDetailPages ==
    { DetailPage(JsonLd(TRUE, "val", "one", TRUE), TRUE, TRUE, TRUE, "url", TRUE),
      DetailPage(JsonLd(TRUE, "val", "one", FALSE), TRUE, TRUE, TRUE, "none", FALSE) }

DetailUrls == {Link("abs", p, s) : p \in ProductPaths, s \in {"", "?v=1"}}

(***************************************************************************)
(* The store (Supabase REST, table products), keyed by id.  A row is       *)
(* [source, title, emb, created_at] (emb is None for a null column,        *)
(* created_at is a reading of the clock); NoRow where the table has no row *)
(* for the id.                                                             *)
(* A request carries its filters: source "*" stands for no source filter.  *)
(***************************************************************************)
NoRow == None

Row(source, title, emb, created_at) ==
    [source |-> source, title |-> title, emb |-> emb, created_at |-> created_at]

Matches(row, source) == row # NoRow /\ (source = "*" \/ row.source = source)

\* GET /rest/v1/products?source=eq.<source>&select=id
StoreSelectIds(st, params) == {i \in DOMAIN st : Matches(st[i], params.source)}

\* DELETE /rest/v1/products?source=eq.<source>&id=in.(<ids>)
StoreDelete(st, params) ==
    [i \in DOMAIN st |->
        IF i \in params.ids /\ Matches(st[i], params.source) THEN NoRow ELSE st[i]]

\* POST /rest/v1/products with Prefer: resolution=merge-duplicates: the
\* columns of the payload replace those of the row with the same id
StoreUpsert(st, payload) ==
    LET old == IF st[payload.id] = NoRow THEN Row(Absent, Absent, None, payload.created_at)
               ELSE st[payload.id]
    IN  [st EXCEPT ![payload.id] =
            Row(payload.source,
                IF payload.title = Absent THEN old.title ELSE payload.title,
                IF payload.embedding = None THEN old.emb ELSE payload.embedding,
                payload.created_at)]

VARIABLES
    pc,                 \* position of the driver
    interrupted,        \* the process was interrupted (KeyboardInterrupt)
    test_mode,          \* self.test_mode
    homepage_visited,   \* self._homepage_visited
    now,                \* the clock: what datetime.now() gives
    listing,            \* the catalog: page number -> listing page
    product_limit,      \* run(product_limit); 0 is None
    page,               \* get_all_product_urls: the page the loop is at
    all_urls,           \* get_all_product_urls: all_urls
    fetched,            \* the listing pages requested so far, in order
    all_product_urls,   \* the result of get_all_product_urls
    idx,                \* run: 1 + the number of URLs the item loop has processed
    product_url,        \* the detail page URL being processed
    soup,               \* what the fetch of product_url returned
    product_data,       \* the result of scrape_product, with the embedding
    embedding_out,      \* what the embedding provider gave for the item, None when not asked
    insert_out,         \* how the store took the last insert, NotAsked when it was not asked
    successful,         \* run: successful
    failed,             \* run: failed
    successful_product_ids, \* run: successful_product_ids
    store,              \* the rows of the store, by id
    store0,             \* the rows of the store when the run began
    requests,           \* the select and delete requests sent to the store, in order
    db_client,          \* DatabaseConnection.client is set
    to_delete,          \* delete_missing_products: to_delete
    chunk_at,           \* delete_missing_products: i, the start of the chunk
    fallback_at,        \* delete_missing_products: position in the one by one fallback
    deleted_count,      \* delete_missing_products: deleted_count
    last_url,           \* self._last_url is set
    attempt,            \* get_page and _scrape_batch: attempt, the index of the loop
    site_log,           \* the requests sent to the site, in order
    waits,              \* get_page: the waits slept between attempts, in order
    fetch_result,       \* what get_page returned: "document" or "null"; "pending" before
    products,           \* ScrapingOrchestrator: the products scraped so far
    embedding_initialized, \* ScrapingOrchestrator: embedding_service._initialized
    stages,             \* run_full_pipeline: the steps it has entered, in order
    pipeline_result,    \* what run_full_pipeline returned; "pending" before
    driver,             \* BrowserManager.driver: "none", "running" or "quit"
    config,             \* Config: which of the settings a run needs are present
    price_text,         \* ProductScraper._parse_price: the text it is given
    price_out           \* ProductScraper._parse_price: what it returned

discoverVars == <<listing, product_limit, page, all_urls, fetched, all_product_urls>>

itemVars == <<product_url, soup, product_data, embedding_out, insert_out>>

loopVars == <<idx, successful, failed, successful_product_ids>>

storeVars == <<store, store0, requests, db_client>>

reconcileVars == <<to_delete, chunk_at, fallback_at, deleted_count>>

fetchVars == <<attempt, waits, fetch_result>>

sessionVars == <<homepage_visited, last_url, site_log>>

priceVars == <<price_text, price_out>>

pipelineVars == <<products, embedding_initialized, stages, pipeline_result, driver, config,
                  priceVars>>

runVars == <<interrupted, test_mode, now>>

vars == <<pc, runVars, sessionVars, fetchVars, pipelineVars, discoverVars, itemVars, loopVars, storeVars,
          reconcileVars>>

(***************************************************************************)
(* get_page.  What the site gives to one request:                          *)
(*   "200"    a response without error                                     *)
(*   "403"    a 403 response                                               *)
(*   "500"    a response with another error status                         *)
(*   "raise"  no response: requests raises a RequestException              *)
(* A request is logged with its kind: "homepage" (the visit get_page makes *)
(* itself before its first request), "cookies"                             *)
(* (visit_homepage_to_get_cookies), "plain", "enhanced", "minimal" (the    *)
(* header sets of get_page), "listing" and "detail" (the first request of  *)
(* a fetch in the run, where the attempts are not followed one by one).    *)
(***************************************************************************)
retries == 3

Responses == {"200", "403", "500", "raise"}

\* what the homepage gives to visit_homepage_to_get_cookies: the visit works
\* or fails (an error status and an exception both make it return False)
RootAnswers == {"200", "raise"}

Rq(kind, out) == [kind |-> kind, out |-> out]

\* lines 248-268: the visit sets _homepage_visited only after raise_for_status
visit_homepage_to_get_cookies(out) == out = "200"

\* lines 172-181: the visit inside get_page sets it whenever a response came
InlineVisit(out) == out # "raise"

\* lines 169-183: the visit before the first request of a session
FirstVisit(first, visited, answers) ==
    IF first /\ ~visited THEN { <<Rq("homepage", h)>> : h \in answers } ELSE { <<>> }

\* lines 221-230, strategy 3
Strategy3(log) ==
    { [log |-> Append(log, Rq("minimal", o)), response |-> o] : o \in Responses }

Strategy2_Skip(log) == Strategy3(log)

\* lines 209-218, strategy 2: an exception of the retry is passed over and
\* response stays the 403 of strategy 1
Strategy2(log) ==
    UNION { UNION { LET l2 == log \o <<Rq("cookies", h), Rq("enhanced", o)>>
                        r  == IF o = "raise" THEN "403" ELSE o
                    IN  IF r = "403" THEN Strategy3(l2)
                        ELSE { [log |-> l2, response |-> r] }
                    : o \in Responses } : h \in RootAnswers }

\* lines 190-206, strategy 1
Strategy1(log) ==
    UNION { LET l1 == Append(log, Rq("enhanced", o))
            IN  IF o = "403" THEN Strategy2(l1) ELSE { [log |-> l1, response |-> o] }
            : o \in Responses }

\* lines 185-230: the requests of one attempt and the response it ends with,
\* "raise" when a request outside strategy 2 raised
AttemptRuns(log) ==
    UNION { LET l0 == Append(log, Rq("plain", o))
            IN  IF o = "403" THEN Strategy1(l0) ELSE { [log |-> l0, response |-> o] }
            : o \in Responses }

\* _homepage_visited after the requests of log
Visited(log, before) ==
    \/ before
    \/ \E i \in 1..Len(log) :
          \/ log[i].kind = "homepage" /\ InlineVisit(log[i].out)
          \/ log[i].kind = "cookies" /\ visit_homepage_to_get_cookies(log[i].out)

\* line 232: raise_for_status passes
Succeeds_Never(response) == FALSE

Succeeds(response) == response = "200"

\* line 235
wait_time_Flat(a) == 3

wait_time(a) == (a + 1) * 3

\* lines 164-245: one iteration of the loop of get_page, with its except
GetPageAttempt ==
    /\ pc = "get_page"
    /\ attempt < retries
    /\ \E pre \in FirstVisit(attempt = 0 /\ ~last_url, homepage_visited, Responses) :
         \E run \in AttemptRuns(pre) :
            /\ site_log' = site_log \o run.log
            /\ homepage_visited' = Visited(run.log, homepage_visited)
            /\ IF Succeeds(run.response)
               THEN /\ last_url' = TRUE
                    /\ fetch_result' = "document"
                    /\ pc' = "got_page"
                    /\ UNCHANGED <<attempt, waits>>
               ELSE /\ last_url' = last_url
                    /\ IF attempt < retries - 1
                       THEN /\ waits' = Append(waits, wait_time(attempt))
                            /\ attempt' = attempt + 1
                            /\ UNCHANGED <<pc, fetch_result>>
                       ELSE /\ fetch_result' = "null"
                            /\ pc' = "got_page"
                            /\ UNCHANGED <<attempt, waits>>
    /\ UNCHANGED <<runVars, pipelineVars, discoverVars, itemVars, loopVars, storeVars,
                   reconcileVars>>

\* the effect of one call of get_page on the session, where the attempts are
\* not followed one by one: kind is the page asked for, ok whether a
\* document came back.  Strategy 2 may have set _homepage_visited.
GetPageCall(kind, ok) ==
    \E pre \in FirstVisit(~last_url, homepage_visited, RootAnswers) :
        /\ site_log' = site_log \o pre \o <<Rq(kind, IF ok THEN "200" ELSE "failed")>>
        /\ homepage_visited' \in {Visited(pre, homepage_visited), TRUE}
        /\ last_url' = (last_url \/ ok)

(***************************************************************************)
(* get_products_from_category_page                                         *)
(***************************************************************************)
\* lines 302-321: the links of the first matching selector, made absolute,
\* cleaned and appended when not yet in the page's list
AnchorUrls(pg) ==
    AppendNew(<<>>, MapSeq(Normalize, FilterSeq(HasProductPath, pg.anchors)))

\* lines 323-339: the 'url' of every JSON-LD block is appended as it is
JsonLdUrls(pg) == FilterSeq(HasProductPath, pg.ld)

get_products_from_category_page(pg) ==
    IF ~pg.ok THEN <<>> ELSE AnchorUrls(pg) \o JsonLdUrls(pg)

(***************************************************************************)
(* get_all_product_urls, one loop iteration per step; the iteration that   *)
(* leaves the loop also removes the duplicates and applies the limit.      *)
(***************************************************************************)
\* lines 370-381
UniqueUrls(urls, limit) ==
    LET unique_urls == AppendNew(<<>>, urls)
    IN  IF limit # 0 /\ Len(unique_urls) > limit THEN Take(unique_urls, limit)
        ELSE unique_urls

LimitReached_Unique(urls, limit) ==
    limit # 0 /\ Cardinality(Range(urls)) >= limit

\* line 365: if limit and len(all_urls) >= limit
LimitReached(urls, limit) == limit # 0 /\ Len(urls) >= limit

\* the loop not left on a page without products
LeaveLoop_KeepPaging(page_urls, gathered, limit, p) ==
    LimitReached(gathered, limit) \/ p = max_pages

\* lines 359-366 and the end of range(1, max_pages + 1): the loop is left on
\* a page without products, on the limit, or after the last page
LeaveLoop(page_urls, gathered, limit, p) ==
    \/ page_urls = <<>>
    \/ LimitReached(gathered, limit)
    \/ p = max_pages

DiscoverPage ==
    /\ pc = "discover"
    /\ ~interrupted
    /\ GetPageCall("listing", listing[page].ok)
    /\ LET page_urls == get_products_from_category_page(listing[page])
           gathered  == IF page_urls = <<>> THEN all_urls ELSE all_urls \o page_urls
       IN  /\ fetched' = Append(fetched, page)
           /\ all_urls' = gathered
           /\ IF LeaveLoop(page_urls, gathered, product_limit, page)
              THEN /\ all_product_urls' = UniqueUrls(gathered, product_limit)
                   /\ pc' = "discovered"
                   /\ page' = page
              ELSE /\ page' = page + 1
                   /\ UNCHANGED <<all_product_urls, pc>>
    /\ UNCHANGED <<fetchVars, pipelineVars, listing, product_limit, runVars, itemVars, loopVars, storeVars, reconcileVars>>

(***************************************************************************)
(* OtherStoriesScraper.scrape_product (src/scraper.py)                     *)
(***************************************************************************)
\* hash(product_url) % 10**10 of the URLs without a numeric suffix
PyHash(u) ==
    CASE u.path = "gift-card/" /\ u.suffix = "" -> "otherstories_7001"
      [] u.path = "gift-card/"                  -> "otherstories_7002"
      [] u.suffix = ""                          -> "otherstories_8001"
      [] OTHER                                  -> "otherstories_8002"

\* lines 409-416: re.search(r'/product/[^/]+-(\d+)/', product_url), else the hash
ExtractId(u) ==
    CASE u.path \in {"dress-1/", "skirt-1/"} -> "otherstories_1"
      [] u.path = "coat-2/"                  -> "otherstories_2"
      [] OTHER                               -> PyHash(u)

\* not x, for a string or a missing key
Falsy(x) == x = Absent \/ x = ""

\* lines 401-416
NewProductData(u) ==
    [id |-> ExtractId(u), product_url |-> u, title |-> Absent, price |-> Absent,
     image_url |-> Absent, embedding |-> None]

\* lines 431-450: the fields taken from the JSON-LD block
FromJsonLd(d, ld) ==
    IF ~ld.present THEN d
    ELSE [d EXCEPT
            !.title = CASE ld.name = "none"  -> "Unknown Product"
                        [] ld.name = "empty" -> ""
                        [] OTHER             -> "LdTitle",
            !.price = IF ld.offers = "one" THEN "LdPrice" ELSE @,
            !.image_url = IF ld.image THEN "LdImg" ELSE @]

\* lines 439, 442: float(offer.get('price', 0)) raises
JsonLdRaises(ld) == ld.present /\ ld.offers = "bad"

\* lines 482-532: no image so far; the meta tags, then the <img> elements
ImageFallback(d, pg) ==
    [d EXCEPT !.image_url = IF pg.og_image = "url" THEN "OgImg"
                            ELSE IF pg.img THEN "HtmlImg"
                            ELSE @]

\* lines 534-575: the else of "if not product_data.get('image_url')"
HtmlFallback(d, pg) ==
    [d EXCEPT
        !.title = IF pg.og_title THEN "OgTitle"
                  ELSE IF pg.title_tag THEN "TagTitle"
                  ELSE "Unknown Product",
        !.price = IF pg.price_meta THEN "MetaPrice" ELSE "None",
        !.image_url = CASE pg.og_image = "url"   -> "OgImg"
                        [] pg.og_image = "empty" -> ""
                        [] pg.img                -> "HtmlImg"
                        [] OTHER                 -> @]

\* line 482: which of the two branches runs
UsesImageFallback(d) == Falsy(d.image_url)

\* lines 584-591: '' is not absolute, urljoin(product_url, '') is product_url
AbsoluteImageUrl(image_url) == IF image_url = "" THEN "<product_url>" ELSE image_url

\* lines 400-647: the body of the try; Exception when it raises
ExtractFields(u, pg) ==
    LET d1 == FromJsonLd(NewProductData(u), pg.ld)
        d2 == IF UsesImageFallback(d1) THEN ImageFallback(d1, pg)
              ELSE HtmlFallback(d1, pg)
    IN  IF JsonLdRaises(pg.ld) THEN Exception             \* lines 439, 442: ValueError
        ELSE IF d2.image_url = Absent THEN Exception      \* line 584: KeyError
        ELSE [d2 EXCEPT !.image_url = AbsoluteImageUrl(@)]

scrape_product_NoExcept(u, pg) == IF ~pg.ok THEN None ELSE ExtractFields(u, pg)

\* lines 396-653: None without a page; except Exception: return None
scrape_product(u, pg) ==
    IF ~pg.ok THEN None
    ELSE IF ExtractFields(u, pg) = Exception THEN None
    ELSE ExtractFields(u, pg)

(***************************************************************************)
(* OtherStoriesScraper.run: the embedding, the upsert and the item loop    *)
(***************************************************************************)
\* the ids scrape_product can give, and one id no page of the catalog has
Ids == {ExtractId(u) : u \in DetailUrls} \cup {"otherstories_5"}

\* line 731: len(embedding) != 768
EmbeddingDim == 768

\* what the download and the model give for an image: ok is FALSE when the
\* download, the decoding or the model raised; dim is the length of the vector
EmbeddingOutcomes ==
    {[ok |-> FALSE, dim |-> 0], [ok |-> TRUE, dim |-> EmbeddingDim], [ok |-> TRUE, dim |-> 512]}

generate_embedding_Unchecked(out) == IF ~out.ok THEN None ELSE Vector(out.dim)

\* lines 665-740: None when anything raised or the length is not 768
generate_embedding(out) ==
    IF ~out.ok THEN None
    ELSE IF out.dim # EmbeddingDim THEN None
    ELSE Vector(out.dim)

\* what a request to the store does:
\*   "ok"            a 2xx answer, the request was applied
\*   "status"        another status, nothing was applied
\*   "raise"         the request raised, nothing was applied
\*   "raise_applied" the request raised (the answer was lost), it was applied
StoreOutcomes == {"ok", "status", "raise", "raise_applied"}

Applied(out) == out \in {"ok", "raise_applied"}

Raised(out) == out \in {"raise", "raise_applied"}

\* insert_product, lines 758-784: the row that is posted at time t; the keys
\* whose value is None are removed from it; 'created_at' is datetime.now()
Payload(d, t) ==
    [id |-> d.id, source |-> "scraper", title |-> d.title, embedding |-> d.embedding,
     created_at |-> t]

insert_product_Always(mode, out) == TRUE

\* insert_product, lines 751-810: the value it returns
insert_product(mode, out) == mode \/ out = "ok"

\* line 930: generate_embedding is called outside test mode when there is an image
EmbeddingWanted(d, mode) == ~mode /\ ~Falsy(d.image_url)

\* lines 930-936: the embedding is added when generate_embedding gave one
WithEmbedding(d, mode, out) ==
    IF EmbeddingWanted(d, mode) /\ generate_embedding(out) # None
    THEN [d EXCEPT !.embedding = generate_embedding(out)]
    ELSE d

LoopDone_Early(i, urls) == TRUE

\* line 923: for product_url in all_product_urls
LoopDone(i, urls) == i > Len(urls)

\* the reconciler called after every run outside test mode
ReconcileWanted_Always(mode, ids) == ~mode

\* line 960: if not self.test_mode and successful_product_ids
ReconcileWanted(mode, ids) == ~mode /\ ids # <<>>

RunStart_NoVisit ==
    /\ pc = "start"
    /\ ~interrupted
    /\ pc' = "discover"
    /\ UNCHANGED <<sessionVars, fetchVars, pipelineVars, runVars, discoverVars, itemVars, loopVars, storeVars,
                   reconcileVars>>

\* lines 901-907: the visit of the homepage, its failure is not fatal
RunStart ==
    /\ pc = "start"
    /\ ~interrupted
    /\ \E h \in RootAnswers :
          /\ site_log' = Append(site_log, Rq("cookies", h))
          /\ homepage_visited' = (homepage_visited \/ visit_homepage_to_get_cookies(h))
    /\ pc' = "discover"
    /\ UNCHANGED <<last_url, fetchVars, pipelineVars, runVars, discoverVars, itemVars, loopVars, storeVars,
                   reconcileVars>>

\* lines 912-921
RunBeginLoop ==
    /\ pc = "discovered"
    /\ ~interrupted
    /\ pc' = IF all_product_urls = <<>> THEN "done" ELSE "loop"
    /\ idx' = 1
    /\ successful' = 0
    /\ failed' = 0
    /\ successful_product_ids' = <<>>
    /\ UNCHANGED <<sessionVars, fetchVars, pipelineVars, runVars, discoverVars, itemVars, storeVars, reconcileVars>>

\* lines 923-963: one iteration of the item loop; after the last one the
\* driver goes on to the reconciler or ends
ProcessItem ==
    /\ pc = "loop"
    /\ ~interrupted
    /\ \E pg \in RunDetailPages \cup {NoSoup, Exception}, emb \in EmbeddingOutcomes,
          ins \in StoreOutcomes :
        LET url     == all_product_urls[idx]
            \* lines 953-955: an exception out of scrape_product is caught
            scraped == IF pg = Exception THEN None ELSE scrape_product(url, pg)
            data    == IF scraped = None THEN None ELSE WithEmbedding(scraped, test_mode, emb)
            saved   == scraped # None /\ insert_product(test_mode, ins)
            ids     == IF saved THEN Append(successful_product_ids, data.id)
                       ELSE successful_product_ids
        IN  /\ GetPageCall("detail", pg # Exception /\ pg.ok)
            /\ product_url' = url
            /\ soup' = pg
            /\ product_data' = data
            /\ embedding_out' = IF scraped # None /\ EmbeddingWanted(scraped, test_mode)
                                THEN emb ELSE None
            /\ insert_out' = IF scraped # None /\ ~test_mode THEN ins ELSE NotAsked
            /\ store' = IF scraped # None /\ ~test_mode /\ Applied(ins)
                        THEN StoreUpsert(store, Payload(data, now)) ELSE store
            /\ successful_product_ids' = ids
            /\ successful' = IF saved THEN successful + 1 ELSE successful
            /\ failed' = IF saved THEN failed ELSE failed + 1
            /\ idx' = idx + 1
            /\ pc' = IF ~LoopDone(idx + 1, all_product_urls) THEN "loop"
                     ELSE IF ReconcileWanted(test_mode, ids) THEN "reconcile"
                     ELSE "done"
    /\ now' = now + 1
    /\ UNCHANGED <<fetchVars, pipelineVars, interrupted, test_mode, discoverVars, store0, requests,
                   db_client, reconcileVars>>

\* the process is stopped: a KeyboardInterrupt is not an Exception, the
\* handlers of run (lines 905, 953) do not catch it and the run ends there
Interrupt ==
    /\ pc # "done"
    /\ ~interrupted
    /\ interrupted' = TRUE
    /\ UNCHANGED <<sessionVars, fetchVars, pipelineVars, pc, test_mode, now, discoverVars, itemVars, loopVars,
                   storeVars, reconcileVars>>

(***************************************************************************)
(* OtherStoriesScraper.delete_missing_products                             *)
(***************************************************************************)
\* line 847 has chunk_size = 100; the model deletes in shorter chunks
chunk_size == 2

Request(op, params, out) == [op |-> op, params |-> params, outcome |-> out]

QueryParams_NoSource == [source |-> "*", select |-> "id"]

\* lines 826-829
QueryParams == [source |-> "scraper", select |-> "id"]

\* a bulk delete without the id filter
DeleteParams_NoIds(chunk) == [source |-> "scraper", ids |-> Ids]

\* lines 856-859: 'source': 'eq.scraper', 'id': 'in.(<ids>)'
DeleteParams(chunk) == [source |-> "scraper", ids |-> Range(chunk)]

\* lines 872-875: 'source': 'eq.scraper', 'id': 'eq.<id>'
SingleDeleteParams(product_id) == [source |-> "scraper", ids |-> {product_id}]

ToDelete_All(existing_ids, current_product_ids) == existing_ids

\* lines 835-838: [eid for eid in existing_ids if eid not in current_ids_set]
ToDelete(existing_ids, current_product_ids) ==
    FilterSeq(LAMBDA eid : eid \notin Range(current_product_ids), existing_ids)

\* line 851: to_delete[i:i + chunk_size], i counted from 0
Chunk(ids, i) == SubSeq(ids, i + 1, Min(i + chunk_size, Len(ids)))

NextChunkStart_Skip(i) == i + chunk_size + 1

\* line 850: range(0, len(to_delete), chunk_size)
NextChunkStart(i) == i + chunk_size

\* lines 819-845: the test mode return, the query of the ids of the source,
\* the difference and the return when it is empty
RecQuery ==
    /\ pc = "reconcile"
    /\ ~interrupted
    /\ IF test_mode
       THEN /\ pc' = "done"
            /\ UNCHANGED <<requests, reconcileVars>>
       ELSE \E ok \in BOOLEAN :
            /\ requests' = Append(requests,
                                  Request("select", QueryParams, IF ok THEN "ok" ELSE "raise"))
            /\ IF ~ok
               THEN /\ pc' = "done"      \* lines 884-887
                    /\ UNCHANGED reconcileVars
               ELSE \E existing_ids \in ListOfSet(StoreSelectIds(store, QueryParams)) :
                    /\ to_delete' = ToDelete(existing_ids, successful_product_ids)
                    /\ chunk_at' = 0
                    /\ deleted_count' = 0
                    /\ fallback_at' = 0
                    /\ pc' = IF to_delete' = <<>> THEN "done" ELSE "delete_bulk"
    /\ UNCHANGED <<sessionVars, fetchVars, pipelineVars, runVars, discoverVars, itemVars, loopVars, store, store0, db_client>>

\* the loop of line 850 goes on to the next chunk or ends
AfterChunk ==
    /\ chunk_at' = NextChunkStart(chunk_at)
    /\ fallback_at' = 0
    /\ pc' = IF NextChunkStart(chunk_at) >= Len(to_delete) THEN "done" ELSE "delete_bulk"

\* lines 851-867: the bulk delete of one chunk
RecBulkDelete ==
    /\ pc = "delete_bulk"
    /\ ~interrupted
    /\ \E out \in StoreOutcomes :
        LET chunk == Chunk(to_delete, chunk_at)
        IN  /\ requests' = Append(requests, Request("delete", DeleteParams(chunk), out))
            /\ store' = IF Applied(out) THEN StoreDelete(store, DeleteParams(chunk)) ELSE store
            /\ deleted_count' = IF out = "ok" THEN deleted_count + Len(chunk) ELSE deleted_count
            /\ IF Raised(out)
               THEN /\ pc' = "delete_single"
                    /\ fallback_at' = 1
                    /\ UNCHANGED chunk_at
               ELSE AfterChunk
    /\ UNCHANGED <<sessionVars, fetchVars, pipelineVars, runVars, discoverVars, itemVars, loopVars, store0, db_client, to_delete>>

\* lines 868-880: the fallback, one delete for one id of the chunk
RecSingleDelete ==
    /\ pc = "delete_single"
    /\ ~interrupted
    /\ \E out \in StoreOutcomes :
        LET chunk      == Chunk(to_delete, chunk_at)
            product_id == chunk[fallback_at]
        IN  /\ requests' = Append(requests,
                                  Request("delete", SingleDeleteParams(product_id), out))
            /\ store' = IF Applied(out) THEN StoreDelete(store, SingleDeleteParams(product_id))
                        ELSE store
            /\ deleted_count' = IF out = "ok" THEN deleted_count + 1 ELSE deleted_count
            /\ IF fallback_at < Len(chunk)
               THEN /\ fallback_at' = fallback_at + 1
                    /\ UNCHANGED <<pc, chunk_at>>
               ELSE AfterChunk
    /\ UNCHANGED <<sessionVars, fetchVars, pipelineVars, runVars, discoverVars, itemVars, loopVars, store0, db_client, to_delete>>

(***************************************************************************)
(* ProductScraper.scrape_product (src/src/scraper/product_scraper.py), the *)
(* browser based extraction.  Its page is what the browser shows:          *)
(*   loaded  the result of browser.get_page                                *)
(*   title   a title selector has text                                     *)
(*   price   a price selector has text                                     *)
(*   image   an image selector has a src                                   *)
(*   raises  an extractor without a handler of its own raises              *)
(***************************************************************************)
BrowserDetailPages ==
    [loaded : BOOLEAN, title : BOOLEAN, price : BOOLEAN, image : BOOLEAN, raises : BOOLEAN]

\* _extract_product_id: r'/product/[^/]+-(\d+)/?$', else the last '-' part of
\* the last path segment when the segment before it is 'product', else None
_extract_product_id(u) ==
    CASE u.path \in {"dress-1/", "skirt-1/"} -> "1"
      [] u.path = "coat-2/"                  -> "2"
      [] u.path = "gift-card/"               -> "card"
      [] OTHER                               -> Absent

\* lines 32-82: a key is set only when its extractor found a value
BrowserProductData(u, pg) ==
    [id |-> _extract_product_id(u), product_url |-> u,
     title |-> IF pg.title THEN "H1Title" ELSE Absent,
     price |-> IF pg.price THEN "PagePrice" ELSE Absent,
     image_url |-> IF pg.image THEN "BrowserImg" ELSE Absent,
     embedding |-> None]

\* lines 84-88: required_fields = ['id', 'product_url', 'image_url', 'title']
\* ('product_url' is set at line 34, always)
HasRequiredFields(d) ==
    d.id # Absent /\ d.product_url # NoUrl /\ d.image_url # Absent /\ d.title # Absent

\* lines 30-91: the body of the try; Exception when an extractor raises
BrowserExtract(u, pg) ==
    IF pg.raises THEN Exception
    ELSE IF ~HasRequiredFields(BrowserProductData(u, pg)) THEN None
    ELSE BrowserProductData(u, pg)

\* lines 22-95: None without a page; except Exception: return None
ProductScraper_scrape_product(u, pg) ==
    IF ~pg.loaded THEN None
    ELSE IF BrowserExtract(u, pg) = Exception THEN None
    ELSE BrowserExtract(u, pg)

(***************************************************************************)
(* ProductScraper._parse_price (src/src/scraper/product_scraper.py).  A    *)
(* price text is a sequence of characters; an amount is kept in cents, the *)
(* texts of the model have at most two digits after the separator.         *)
(***************************************************************************)
DigitChars == <<"0", "1", "2", "3", "4", "5", "6", "7", "8", "9">>

IsDigit(c) == \E d \in DOMAIN DigitChars : DigitChars[d] = c

DigitValue(c) == (CHOOSE d \in DOMAIN DigitChars : DigitChars[d] = c) - 1

\* the symbols of the character class of line 176 that the model uses
PriceSymbols == {"€", "$", "£", "₺"}

\* lines 187-195: currency_map, for the symbols of the model
currency_map == [s \in {"€", "$", "£"} |->
                    CASE s = "€" -> "EUR" [] s = "$" -> "USD" [] s = "£" -> "GBP"]

\* line 197: currency_map.get(currency_symbol, 'EUR')
CurrencyOf(currency_symbol) ==
    IF currency_symbol \in DOMAIN currency_map THEN currency_map[currency_symbol] ELSE "EUR"

RECURSIVE CollapseSpaces(_)
CollapseSpaces(t) ==
    IF Len(t) <= 1 THEN t
    ELSE IF t[1] = " " /\ t[2] = " " THEN CollapseSpaces(Tail(t))
    ELSE <<t[1]>> \o CollapseSpaces(Tail(t))

\* line 172: ' '.join(price_text.split())
SplitJoin(t) ==
    LET c == CollapseSpaces(t)
        l == IF c # <<>> /\ c[1] = " " THEN Tail(c) ELSE c
    IN  IF l # <<>> /\ l[Len(l)] = " " THEN SubSeq(l, 1, Len(l) - 1) ELSE l

\* the position after the run of digits (\d+) that starts at i
RECURSIVE DigitsEnd(_, _)
DigitsEnd(t, i) == IF i <= Len(t) /\ IsDigit(t[i]) THEN DigitsEnd(t, i + 1) ELSE i

\* the position after the white space (\s*) that starts at i
RECURSIVE SpacesEnd(_, _)
SpacesEnd(t, i) == IF i <= Len(t) /\ t[i] = " " THEN SpacesEnd(t, i + 1) ELSE i

\* (\d+(?:[.,]\d+)?) at i, where t[i] is a digit
AmountAt(t, i) ==
    LET e == DigitsEnd(t, i)
        f == IF e < Len(t) /\ t[e] \in {".", ","} /\ IsDigit(t[e + 1])
             THEN DigitsEnd(t, e + 1) ELSE e
    IN  SubSeq(t, i, f - 1)

NoMatch == [matched |-> FALSE]

\* the pattern of line 176 tried at position i: with the optional symbol
\* first, without it when that fails
MatchAt(t, i) ==
    LET with    == SpacesEnd(t, i + 1)
        without == SpacesEnd(t, i)
    IN  IF t[i] \in PriceSymbols /\ with <= Len(t) /\ IsDigit(t[with])
        THEN [matched |-> TRUE, symbol |-> t[i], amount_str |-> AmountAt(t, with)]
        ELSE IF without <= Len(t) /\ IsDigit(t[without])
        THEN [matched |-> TRUE, symbol |-> "", amount_str |-> AmountAt(t, without)]
        ELSE NoMatch

\* re.search: the match at the first position that has one
PriceSearch(t) ==
    LET at == {i \in DOMAIN t : MatchAt(t, i).matched}
    IN  IF at = {} THEN NoMatch
        ELSE MatchAt(t, CHOOSE i \in at : \A j \in at : i <= j)

RECURSIVE DigitsValue(_)
DigitsValue(ds) ==
    IF ds = <<>> THEN 0 ELSE 10 * DigitsValue(SubSeq(ds, 1, Len(ds) - 1)) + DigitValue(ds[Len(ds)])

\* lines 183-184: float(amount_str.replace(',', '.')), in cents
ToCents(amount_str) ==
    LET e     == DigitsEnd(amount_str, 1)
        whole == DigitsValue(SubSeq(amount_str, 1, e - 1))
        frac  == SubSeq(amount_str, e + 1, Len(amount_str))
    IN  100 * whole + (IF Len(frac) = 1 THEN 10 * DigitsValue(frac) ELSE DigitsValue(frac))

\* lines 168-216; the fallback of lines 204-211 is never reached: a text
\* with a digit matches the pattern of line 176
_parse_price(text) ==
    LET t == SplitJoin(text)
        m == PriceSearch(t)
    IN  IF ~m.matched THEN None
        ELSE [price |-> ToCents(m.amount_str), currency |-> CurrencyOf(m.symbol)]

\* the price texts of the model: a number with or without decimals, a
\* symbol before or after it or none, with or without white space
Numbers == { <<"4", "9">>, <<"5">>, <<"1", "2", "0">> }

Decimals == { <<>>, <<",", "9", "0">>, <<".", "9", "9">>, <<",", "5">> }

Before == { <<>>, <<" ">> } \cup UNION { { <<s>>, <<s, " ">> } : s \in PriceSymbols }

After == { <<>> } \cup UNION { { <<s>>, <<" ", s>> } : s \in PriceSymbols \ {"₺"} }

PriceTexts ==
    { b \o n \o d \o a : b \in Before, n \in Numbers, d \in Decimals, a \in After }
        \cup { <<>>, <<"S", "o", "l", "d">>, <<"€">> }

\* _extract_price calls _parse_price on the text of the price element
ParsePriceCall ==
    /\ pc = "parse_price"
    /\ price_out' = _parse_price(price_text)
    /\ pc' = "price_parsed"
    /\ UNCHANGED <<price_text, products, embedding_initialized, stages, pipeline_result,
                   driver, config, runVars, sessionVars, fetchVars, discoverVars, itemVars,
                   loopVars, storeVars, reconcileVars>>
(***************************************************************************)
(* CategoryScraper.extract_product_urls (src/src/scraper/category_scraper) *)
(* the browser based discovery.  A page of its catalog is what the browser *)
(* shows after browser.get_page:                                           *)
(*   loaded  the result of browser.get_page                                *)
(*   marker  '"href"' in page_source and 'product' in page_source          *)
(*   json    the matches of "href": "(.../product/...)" in the page source *)
(*   html    the href of the a[href*="/product/"] elements                 *)
(*   next    the result of _has_next_page                                  *)
(* A page with a json match has the marker.  The variables listing, page,  *)
(* all_urls (product_urls), fetched and all_product_urls (the result) are  *)
(* used as in get_all_product_urls; scraping.max_pages is max_pages.       *)
(***************************************************************************)
BrowserPage(loaded, marker, json, html, next) ==
    [loaded |-> loaded, marker |-> marker, json |-> json, html |-> html, next |-> next]

BrowserPages ==
    { BrowserPage(FALSE, FALSE, <<>>, <<>>, FALSE),
      BrowserPage(TRUE, FALSE, <<>>, <<Link("abs", "dress-1/", "")>>, TRUE),
      BrowserPage(TRUE, TRUE, <<>>, <<>>, TRUE),
      BrowserPage(TRUE, TRUE, <<Link("root", "dress-1/", ""), Link("root", "coat-2/", "?v=1")>>,
                  <<>>, TRUE),
      BrowserPage(TRUE, TRUE, <<>>, <<Link("abs", "skirt-1/", ""), Link("abs", "coat-2/", "")>>,
                  TRUE),
      BrowserPage(TRUE, TRUE, <<Link("abs", "dress-1/", "")>>,
                  <<Link("abs", "gift-card/", "")>>, FALSE),
      BrowserPage(TRUE, TRUE, <<Link("root", "skirt-1/", "#top")>>, <<>>, TRUE) }

\* _is_valid_product_url with the default pattern '/product/'
_is_valid_product_url(u) == HasProductPath(u)

\* _extract_urls_from_json / _extract_urls_from_html: made absolute against
\* base_url, kept when valid; query and fragment stay
_extract_urls_from_json(pg) == FilterSeq(_is_valid_product_url, MapSeq(MakeAbsolute, pg.json))

_extract_urls_from_html(pg) == FilterSeq(_is_valid_product_url, MapSeq(MakeAbsolute, pg.html))

\* _extract_urls_from_page, before list(set(...)): json when it gives any, else html
PageUrlSet(pg) ==
    IF _extract_urls_from_json(pg) # <<>> THEN Range(_extract_urls_from_json(pg))
    ELSE Range(_extract_urls_from_html(pg))

\* lines 34-41: the page failed to load, or shows no product data
CatPageUnavailable(pg) == ~pg.loaded \/ ~pg.marker

\* lines 34-54 and the while condition: the loop is left
CatLeaveLoop(pg, p) == CatPageUnavailable(pg) \/ ~pg.next \/ p = max_pages

ExtractProductUrlsPage ==
    /\ pc = "cat_discover"
    /\ LET pg == listing[page]
       IN  /\ fetched' = Append(fetched, page)
           /\ \E page_urls \in (IF CatPageUnavailable(pg) THEN {<<>>}
                                ELSE ListOfSet(PageUrlSet(pg))) :
                /\ all_urls' = all_urls \o page_urls
                /\ IF CatLeaveLoop(pg, page)
                   THEN /\ all_product_urls' \in ListOfSet(Range(all_urls \o page_urls))
                        /\ pc' = "cat_discovered"
                        /\ page' = page
                   ELSE /\ page' = page + 1
                        /\ UNCHANGED <<all_product_urls, pc>>
    /\ UNCHANGED <<sessionVars, fetchVars, pipelineVars, listing, product_limit, runVars, itemVars, loopVars, storeVars, reconcileVars>>

(***************************************************************************)
(* insert_product called on its own, and DatabaseConnection.insert_products*)
(* (src/src/database/connection.py), the store client of the browser based *)
(* variant, called with a list of one product.                             *)
(***************************************************************************)
\* the most calls made on one record
MaxCalls == 3

\* the ids ProductScraper gives
BrowserIds == {_extract_product_id(u) : u \in DetailUrls} \ {Absent}

\* client.table(...).insert(batch): a plain INSERT, the row as it is posted;
\* created_at is the default of the column, the clock of the store
InsertedRow(d, t) == Row("other_stories", d.title, d.embedding, t)

\* the store refuses a batch with a row whose id it already holds, or with
\* two rows of one id (the primary key); nothing of the batch is inserted
Conflict(st, batch) ==
    \/ \E i \in DOMAIN batch : st[batch[i].id] # NoRow
    \/ \E i, j \in DOMAIN batch : i # j /\ batch[i].id = batch[j].id

StoreInsert(st, batch, t) ==
    [i \in DOMAIN st |->
        IF \E k \in DOMAIN batch : batch[k].id = i
        THEN InsertedRow(batch[CHOOSE k \in DOMAIN batch : batch[k].id = i], t)
        ELSE st[i]]

insert_products_Always(client, st, batch, out) == TRUE

\* insert_products, lines 45-73, for a list that fits one batch: False
\* without a client, False when execute() raises, True otherwise
insert_products(client, st, batch, out) == client /\ out = "ok" /\ ~Conflict(st, batch)

\* the counters of the calls made so far
CountCall(result) ==
    /\ successful' = IF result THEN successful + 1 ELSE successful
    /\ failed' = IF result THEN failed ELSE failed + 1
    /\ idx' = idx + 1
    /\ now' = now + 1

\* one call of insert_product(product_data), lines 742-810
InsertProductCall ==
    /\ pc = "upsert"
    /\ idx <= MaxCalls
    /\ \E out \in StoreOutcomes :
        /\ insert_out' = IF test_mode THEN NotAsked ELSE out
        /\ store' = IF ~test_mode /\ Applied(out)
                    THEN StoreUpsert(store, Payload(product_data, now)) ELSE store
        /\ CountCall(insert_product(test_mode, out))
    /\ UNCHANGED <<sessionVars, fetchVars, pipelineVars, pc, interrupted, test_mode, discoverVars, product_url,
                   soup, product_data, embedding_out, successful_product_ids, store0,
                   requests, db_client, reconcileVars>>

\* one call of DatabaseConnection.insert_products([product_data])
InsertProductsCall ==
    /\ pc = "db_insert"
    /\ idx <= MaxCalls
    /\ \E out \in StoreOutcomes :
        /\ insert_out' = IF db_client THEN out ELSE NotAsked
        /\ store' = IF db_client /\ Applied(out) /\ ~Conflict(store, <<product_data>>)
                    THEN StoreInsert(store, <<product_data>>, now) ELSE store
        /\ CountCall(insert_products(db_client, store, <<product_data>>, out))
    /\ UNCHANGED <<sessionVars, fetchVars, pipelineVars, pc, interrupted, test_mode, discoverVars, product_url,
                   soup, product_data, embedding_out, successful_product_ids, store0,
                   requests, db_client, reconcileVars>>

(***************************************************************************)
(* ScrapingOrchestrator (src/src/scraper/orchestrator.py).  The steps of   *)
(* run_full_pipeline are logged in stages: "Initializing", "Discovering",  *)
(* "Extracting", "Embedding", "Persisting"; pipeline_result is "true" or   *)
(* "false" when it has returned.  The product URLs are all_product_urls,   *)
(* idx is the position of _scrape_batch in them.                           *)
(***************************************************************************)
max_retries == 3

\* Config: the settings a run needs; credentials is "SUPABASE_URL and
\* SUPABASE_KEY are set", category_url is "brand.category_url is set"
Configs == [credentials : BOOLEAN, category_url : BOOLEAN]

FullConfig == [credentials |-> TRUE, category_url |-> TRUE]

\* BrowserManager.setup_driver: what it returns and what self.driver is
\* afterwards; the driver exists when line 54 raised after line 51
DriverSetups ==
    { [ok |-> TRUE, driver |-> "running"],
      [ok |-> FALSE, driver |-> "none"],
      [ok |-> FALSE, driver |-> "running"] }

\* the same without leaving the browser running when it is given up
quit_driver_Keep(d) == d

\* BrowserManager.quit_driver: a driver that exists is quit, also when
\* quit() raised
quit_driver(d) == IF d = "running" THEN "quit" ELSE d

\* DatabaseConnection.connect, lines 20-36: no client without credentials;
\* created is whether create_client returned
connect(cfg, created) == cfg.credentials /\ created

\* lines 204-219: what one attempt of _scrape_batch on a URL gives:
\* the product, None, or Exception when scrape_product raised
BatchAttempt(u, pg, raised) ==
    IF raised THEN Exception ELSE ProductScraper_scrape_product(u, pg)

GotProduct(result) == result # Exception /\ result # None

\* lines 202-219: one iteration of the loop over the attempts of a URL
ScrapeBatchAttempt ==
    /\ pc = "batch"
    /\ idx <= Len(all_product_urls)
    /\ \E pg \in BrowserDetailPages, raised \in BOOLEAN :
        LET url      == all_product_urls[idx]
            result   == BatchAttempt(url, pg, raised)
            url_done == GotProduct(result) \/ attempt = max_retries - 1
            next_idx == IF url_done THEN idx + 1 ELSE idx
        IN  /\ product_url' = url
            /\ products' = IF GotProduct(result) THEN Append(products, result) ELSE products
            /\ attempt' = IF url_done THEN 0 ELSE attempt + 1
            /\ idx' = next_idx
            /\ pc' = IF next_idx > Len(all_product_urls) THEN "batch_done" ELSE "batch"
    /\ UNCHANGED <<runVars, sessionVars, waits, fetch_result, embedding_initialized, stages,
                   pipeline_result, driver, config, priceVars, discoverVars, soup, product_data, embedding_out,
                   insert_out, successful, failed, successful_product_ids, storeVars,
                   reconcileVars>>

\* lines 252-260 (finally): the browser is quit, the store client dropped
Cleanup(result, drv) ==
    /\ pipeline_result' = result
    /\ driver' = quit_driver(drv)
    /\ db_client' = FALSE
    /\ pc' = "pipeline_done"

\* lines 37-52 and _initialize_components, lines 147-165
PipelineStart ==
    /\ pc = "pipeline"
    /\ \E setup \in DriverSetups, created, embedding_ok \in BOOLEAN :
        LET initialized == setup.ok /\ connect(config, created)
        IN  /\ embedding_initialized' = (initialized /\ embedding_ok)
            /\ IF initialized /\ config.category_url
               THEN /\ stages' = <<"Initializing", "Discovering">>
                    /\ driver' = setup.driver
                    /\ db_client' = TRUE
                    /\ pc' = "cat_discover"
                    /\ UNCHANGED pipeline_result
               ELSE /\ stages' = <<"Initializing">>
                    /\ Cleanup("false", setup.driver)
    /\ UNCHANGED <<config, priceVars, runVars, sessionVars, fetchVars, products, discoverVars, itemVars, loopVars,
                   store, store0, requests, reconcileVars>>

\* lines 54-62
PipelineAfterDiscover ==
    /\ pc = "cat_discovered"
    /\ stages # <<>>
    /\ IF all_product_urls = <<>>
       THEN /\ Cleanup("false", driver)
            /\ UNCHANGED stages
       ELSE /\ stages' = Append(stages, "Extracting")
            /\ pc' = "batch"
            /\ UNCHANGED <<pipeline_result, driver, db_client>>
    /\ UNCHANGED <<config, priceVars, runVars, sessionVars, fetchVars, products, embedding_initialized,
                   discoverVars, itemVars, loopVars, store, store0, requests, reconcileVars>>

\* what _generate_embeddings can make of one product: service.py is not in
\* the sources; a product with an image gets a vector or stays as it is
WithServiceEmbedding(d) ==
    { d, [d EXCEPT !.embedding = Vector(EmbeddingDim)] }

\* _generate_embeddings, lines 223-250: every product is kept, in order
EmbeddedLists(prods, initialized) ==
    IF ~initialized THEN { prods }
    ELSE { l \in [DOMAIN prods -> UNION { WithServiceEmbedding(prods[i]) : i \in DOMAIN prods }] :
             \A i \in DOMAIN prods : l[i] \in WithServiceEmbedding(prods[i]) }

\* lines 64-74: after _scrape_products_batch, then step 3
PipelineAfterExtract ==
    /\ pc = "batch_done"
    /\ stages # <<>>
    /\ IF products = <<>>
       THEN /\ Cleanup("false", driver)
            /\ UNCHANGED <<stages, products>>
       ELSE /\ stages' = Append(stages, "Embedding")
            /\ products' \in EmbeddedLists(products, embedding_initialized)
            /\ pc' = "persist"
            /\ UNCHANGED <<pipeline_result, driver, db_client>>
    /\ UNCHANGED <<config, priceVars, runVars, sessionVars, fetchVars, embedding_initialized, discoverVars,
                   itemVars, loopVars, store, store0, requests, reconcileVars>>

\* lines 76-85: step 4, database.insert_products(products_with_embeddings)
PipelinePersist ==
    /\ pc = "persist"
    /\ \E out \in StoreOutcomes :
        /\ stages' = Append(stages, "Persisting")
        /\ insert_out' = out
        /\ store' = IF Applied(out) /\ ~Conflict(store, products)
                    THEN StoreInsert(store, products, now) ELSE store
        /\ Cleanup(IF insert_products(db_client, store, products, out) THEN "true"
                   ELSE "false", driver)
    /\ UNCHANGED <<config, priceVars, runVars, sessionVars, fetchVars, products, embedding_initialized,
                   discoverVars, product_url, soup, product_data, embedding_out, loopVars,
                   store0, requests, reconcileVars>>

\* lines 82-84: an exception in a step of the pipeline ends it with False
PipelineException ==
    /\ pc \in {"cat_discover", "batch", "persist"}
    /\ stages # <<>>
    /\ Cleanup("false", driver)
    /\ UNCHANGED <<config, priceVars, runVars, sessionVars, fetchVars, products, embedding_initialized, stages,
                   discoverVars, itemVars, loopVars, store, store0, requests, reconcileVars>>

(***************************************************************************)
(* The variables a specification does not use keep these values.           *)
(***************************************************************************)
RunIdle ==
    /\ interrupted = FALSE
    /\ test_mode = FALSE
    /\ now = 1

SessionIdle ==
    /\ homepage_visited = FALSE
    /\ last_url = FALSE
    /\ site_log = <<>>

FetchIdle ==
    /\ attempt = 0
    /\ waits = <<>>
    /\ fetch_result = "pending"

PipelineIdle ==
    /\ products = <<>>
    /\ embedding_initialized = FALSE
    /\ stages = <<>>
    /\ pipeline_result = "pending"
    /\ driver = "none"
    /\ config = FullConfig
    /\ price_text = <<>>
    /\ price_out = None

DiscoverIdle ==
    /\ listing = <<>>
    /\ product_limit = 0
    /\ page = 1
    /\ all_urls = <<>>
    /\ fetched = <<>>
    /\ all_product_urls = <<>>

ItemIdle ==
    /\ product_url = NoUrl
    /\ soup = NoSoup
    /\ product_data = None
    /\ embedding_out = None
    /\ insert_out = NotAsked

LoopIdle ==
    /\ idx = 1
    /\ successful = 0
    /\ failed = 0
    /\ successful_product_ids = <<>>

StoreIdle ==
    /\ store = [i \in Ids |-> NoRow]
    /\ store0 = store
    /\ requests = <<>>
    /\ db_client = FALSE

ReconcileIdle ==
    /\ to_delete = <<>>
    /\ chunk_at = 0
    /\ fallback_at = 0
    /\ deleted_count = 0

(***************************************************************************)
(* Discovery alone: get_all_product_urls over every catalog of max_pages   *)
(* listing pages.                                                          *)
(***************************************************************************)
InitDiscover ==
    /\ pc = "discover"
    /\ RunIdle
    /\ SessionIdle
    /\ FetchIdle
    /\ PipelineIdle
    /\ listing \in [1..max_pages -> ListingPages]
    /\ product_limit \in 0..MaxLimit
    /\ page = 1
    /\ all_urls = <<>>
    /\ fetched = <<>>
    /\ all_product_urls = <<>>
    /\ ItemIdle
    /\ LoopIdle
    /\ StoreIdle
    /\ ReconcileIdle

NextDiscover == DiscoverPage

SpecDiscover == InitDiscover /\ [][NextDiscover]_vars

(***************************************************************************)
(* Extraction alone: scrape_product on every detail page.                  *)
(***************************************************************************)
ScrapeProductCall ==
    /\ pc = "scrape"
    /\ GetPageCall("detail", soup.ok)
    /\ product_data' = scrape_product(product_url, soup)
    /\ pc' = "scraped"
    /\ UNCHANGED <<fetchVars, pipelineVars, runVars, discoverVars, product_url, soup, embedding_out, insert_out, loopVars,
                   storeVars, reconcileVars>>

InitExtract ==
    /\ pc = "scrape"
    /\ RunIdle
    /\ SessionIdle
    /\ FetchIdle
    /\ PipelineIdle
    /\ DiscoverIdle
    /\ product_url \in DetailUrls
    /\ soup \in DetailPages \cup {NoSoup}
    /\ product_data = None
    /\ embedding_out = None
    /\ insert_out = NotAsked
    /\ LoopIdle
    /\ StoreIdle
    /\ ReconcileIdle

NextExtract == ScrapeProductCall

SpecExtract == InitExtract /\ [][NextExtract]_vars

(***************************************************************************)
(* ProductScraper.scrape_product alone.                                    *)
(***************************************************************************)
ProductScraperCall ==
    /\ pc = "browser_scrape"
    /\ product_data' = ProductScraper_scrape_product(product_url, soup)
    /\ pc' = "browser_scraped"
    /\ UNCHANGED <<sessionVars, fetchVars, pipelineVars, runVars, discoverVars, product_url, soup, embedding_out, insert_out, loopVars,
                   storeVars, reconcileVars>>

InitProductScraper ==
    /\ pc = "browser_scrape"
    /\ RunIdle
    /\ SessionIdle
    /\ FetchIdle
    /\ PipelineIdle
    /\ DiscoverIdle
    /\ product_url \in DetailUrls
    /\ soup \in BrowserDetailPages
    /\ product_data = None
    /\ embedding_out = None
    /\ insert_out = NotAsked
    /\ LoopIdle
    /\ StoreIdle
    /\ ReconcileIdle

NextProductScraper == ProductScraperCall

SpecProductScraper == InitProductScraper /\ [][NextProductScraper]_vars

(***************************************************************************)
(* CategoryScraper.extract_product_urls alone.                             *)
(***************************************************************************)
InitCategory ==
    /\ pc = "cat_discover"
    /\ RunIdle
    /\ SessionIdle
    /\ FetchIdle
    /\ PipelineIdle
    /\ listing \in [1..max_pages -> BrowserPages]
    /\ product_limit = 0
    /\ page = 1
    /\ all_urls = <<>>
    /\ fetched = <<>>
    /\ all_product_urls = <<>>
    /\ ItemIdle
    /\ LoopIdle
    /\ StoreIdle
    /\ ReconcileIdle

NextCategory == ExtractProductUrlsPage

SpecCategory == InitCategory /\ [][NextCategory]_vars

(***************************************************************************)
(* The reconciler alone: delete_missing_products called with a list of     *)
(* ids on a store that holds rows of this source and of another one.       *)
(***************************************************************************)
ReconcileIds == {"otherstories_1", "otherstories_2", "otherstories_5", "otherstories_7001"}

\* the rows an id can have: none, a row of this source (for one id with
\* other content too), a row of another source
RowChoices(i) ==
    IF i \notin ReconcileIds THEN {NoRow}
    ELSE {NoRow, Row("scraper", "OldTitle", None, 0), Row("other", "OldTitle", None, 0)}
         \cup (IF i = "otherstories_1" THEN {Row("scraper", "LdTitle", Vector(EmbeddingDim), 0)}
               ELSE {})

ReconcileStores == {st \in [Ids -> UNION {RowChoices(i) : i \in Ids}] :
                        \A i \in Ids : st[i] \in RowChoices(i)}

\* the lists of ids a run can hand over: not empty (line 960), an id can be
\* in it twice (two URLs of one product)
SuccessfulLists ==
    { <<"otherstories_1">>, <<"otherstories_2">>, <<"otherstories_7001">>,
      <<"otherstories_8001">>,
      <<"otherstories_1", "otherstories_2">>, <<"otherstories_1", "otherstories_1">>,
      <<"otherstories_2", "otherstories_5">>, <<"otherstories_5", "otherstories_8001">>,
      <<"otherstories_2", "otherstories_5", "otherstories_8001">>,
      <<"otherstories_1", "otherstories_2", "otherstories_5", "otherstories_7001">> }

InitReconcile ==
    /\ pc = "reconcile"
    /\ RunIdle
    /\ SessionIdle
    /\ FetchIdle
    /\ PipelineIdle
    /\ DiscoverIdle
    /\ ItemIdle
    /\ idx = 1
    /\ successful_product_ids \in SuccessfulLists
    /\ successful = Len(successful_product_ids)
    /\ failed = 0
    /\ store \in ReconcileStores
    /\ store0 = store
    /\ requests = <<>>
    /\ db_client = FALSE
    /\ ReconcileIdle

NextReconcile == RecQuery \/ RecBulkDelete \/ RecSingleDelete

SpecReconcile == InitReconcile /\ [][NextReconcile]_vars

(***************************************************************************)
(* A whole run: run(product_limit) on a catalog and a store.               *)
(***************************************************************************)
RunListingPages ==
    { ListingPage(TRUE, <<>>, <<>>),
      ListingPage(TRUE, <<Link("root", "dress-1/", ""), Link("root", "coat-2/", "")>>, <<>>),
      ListingPage(TRUE, <<Link("abs", "coat-2/", "?v=1"), Link("root", "skirt-1/", "")>>, <<>>) }

RunLimits == {0, 1}

RunStores ==
    { [i \in Ids |-> NoRow],
      [i \in Ids |-> IF i \in {"otherstories_1", "otherstories_5"}
                     THEN Row("scraper", "OldTitle", None, 0)
                     ELSE IF i = "otherstories_2" THEN Row("other", "OldTitle", None, 0)
                     ELSE NoRow],
      [i \in Ids |-> IF i = "otherstories_2" THEN Row("scraper", "LdTitle", Vector(EmbeddingDim), 0)
                     ELSE IF i = "otherstories_7002" THEN Row("other", "OldTitle", None, 0)
                     ELSE NoRow] }

Init ==
    /\ pc = "start"
    /\ interrupted = FALSE
    /\ test_mode \in BOOLEAN
    /\ SessionIdle
    /\ FetchIdle
    /\ PipelineIdle
    /\ now = 1
    /\ listing \in [1..max_pages -> RunListingPages]
    /\ product_limit \in RunLimits
    /\ page = 1
    /\ all_urls = <<>>
    /\ fetched = <<>>
    /\ all_product_urls = <<>>
    /\ ItemIdle
    /\ LoopIdle
    /\ store \in RunStores
    /\ store0 = store
    /\ requests = <<>>
    /\ db_client = FALSE
    /\ ReconcileIdle

Next ==
    \/ RunStart
    \/ DiscoverPage
    \/ RunBeginLoop
    \/ ProcessItem
    \/ RecQuery
    \/ RecBulkDelete
    \/ RecSingleDelete
    \/ Interrupt

Spec == Init /\ [][Next]_vars

(***************************************************************************)
(* The insert alone: the same record is handed to insert_product, or to    *)
(* DatabaseConnection.insert_products, up to MaxCalls times.               *)
(***************************************************************************)
\* the records run hands to insert_product
ScrapedRecords ==
    {WithEmbedding(d, FALSE, e) :
        d \in {scrape_product(u, pg) : u \in DetailUrls, pg \in RunDetailPages} \ {None},
        e \in EmbeddingOutcomes}

\* the records the orchestrator hands to insert_products
BrowserRecords ==
    {ProductScraper_scrape_product(u, pg) : u \in DetailUrls, pg \in BrowserDetailPages}
    \ {None}

InitUpsert ==
    /\ interrupted = FALSE
    /\ SessionIdle
    /\ FetchIdle
    /\ PipelineIdle
    /\ now = 1
    /\ DiscoverIdle
    /\ product_url = NoUrl
    /\ soup = NoSoup
    /\ embedding_out = None
    /\ insert_out = NotAsked
    /\ LoopIdle
    /\ requests = <<>>
    /\ ReconcileIdle
    /\ \/ /\ pc = "upsert"
          /\ test_mode \in BOOLEAN
          /\ db_client = FALSE
          /\ product_data \in ScrapedRecords
          /\ store \in RunStores
       \/ /\ pc = "db_insert"
          /\ test_mode = FALSE
          /\ db_client \in BOOLEAN
          /\ product_data \in BrowserRecords
          /\ store \in {[i \in BrowserIds |-> NoRow],
                        [i \in BrowserIds |-> IF i = "1"
                                              THEN Row("other_stories", "H1Title", None, 0)
                                              ELSE NoRow]}
    /\ store0 = store

NextUpsert == InsertProductCall \/ InsertProductsCall

SpecUpsert == InitUpsert /\ [][NextUpsert]_vars


(***************************************************************************)
(* get_page alone: one call, on a session that has or has not fetched a    *)
(* page and has or has not visited the homepage.                           *)
(***************************************************************************)
InitFetch ==
    /\ pc = "get_page"
    /\ RunIdle
    /\ homepage_visited \in BOOLEAN
    /\ last_url \in BOOLEAN
    /\ site_log = <<>>
    /\ FetchIdle
    /\ PipelineIdle
    /\ DiscoverIdle
    /\ ItemIdle
    /\ LoopIdle
    /\ StoreIdle
    /\ ReconcileIdle

NextFetch == GetPageAttempt

SpecFetch == InitFetch /\ [][NextFetch]_vars

\* an attempt that can be made is made: the loop of get_page goes on
SpecFetchLive == SpecFetch /\ WF_vars(GetPageAttempt)

(***************************************************************************)
(* The item loops alone: the loop of run over the URLs it was given, and   *)
(* _scrape_batch of the orchestrator over its URLs.                        *)
(***************************************************************************)
\* the lists of URLs the loops are given
ItemUrlLists ==
    { <<Link("abs", "dress-1/", "")>>,
      <<Link("abs", "dress-1/", ""), Link("abs", "coat-2/", "")>>,
      <<Link("abs", "about/", ""), Link("abs", "coat-2/", "?v=1")>> }

InitItems ==
    /\ interrupted = FALSE
    /\ now = 1
    /\ SessionIdle
    /\ FetchIdle
    /\ PipelineIdle
    /\ listing = <<>>
    /\ product_limit = 0
    /\ page = 1
    /\ all_urls = <<>>
    /\ fetched = <<>>
    /\ all_product_urls \in ItemUrlLists
    /\ ItemIdle
    /\ LoopIdle
    /\ requests = <<>>
    /\ db_client = FALSE
    /\ ReconcileIdle
    /\ \/ /\ pc = "loop"
          /\ test_mode \in BOOLEAN
          /\ store \in RunStores
       \/ /\ pc = "batch"
          /\ test_mode = FALSE
          /\ store = [i \in BrowserIds |-> NoRow]
    /\ store0 = store

NextItems == ProcessItem \/ ScrapeBatchAttempt

SpecItems == InitItems /\ [][NextItems]_vars

(***************************************************************************)
(* The two extractors, each called once on every detail page.              *)
(***************************************************************************)
InitExtractors == InitExtract \/ InitProductScraper

NextExtractors == ScrapeProductCall \/ ProductScraperCall

SpecExtractors == InitExtractors /\ [][NextExtractors]_vars

(***************************************************************************)
(* run_full_pipeline of the orchestrator, on small catalogs.               *)
(***************************************************************************)
\* the catalogs of the pipeline: no page loads; one page with two products;
\* one page with one product and a link that is not a product
PipelineListings ==
    { [p \in 1..max_pages |-> BrowserPage(FALSE, FALSE, <<>>, <<>>, FALSE)],
      [p \in 1..max_pages |->
          IF p = 1
          THEN BrowserPage(TRUE, TRUE, <<Link("root", "dress-1/", ""),
                                         Link("root", "coat-2/", "?v=1")>>, <<>>, FALSE)
          ELSE BrowserPage(FALSE, FALSE, <<>>, <<>>, FALSE)],
      [p \in 1..max_pages |->
          IF p = 1
          THEN BrowserPage(TRUE, TRUE, <<Link("abs", "dress-1/", "")>>,
                           <<Link("abs", "gift-card/", "")>>, FALSE)
          ELSE BrowserPage(FALSE, FALSE, <<>>, <<>>, FALSE)] }

InitPipeline ==
    /\ pc = "pipeline"
    /\ RunIdle
    /\ SessionIdle
    /\ FetchIdle
    /\ products = <<>>
    /\ embedding_initialized = FALSE
    /\ stages = <<>>
    /\ pipeline_result = "pending"
    /\ driver = "none"
    /\ config \in Configs
    /\ price_text = <<>>
    /\ price_out = None
    /\ listing \in PipelineListings
    /\ product_limit = 0
    /\ page = 1
    /\ all_urls = <<>>
    /\ fetched = <<>>
    /\ all_product_urls = <<>>
    /\ ItemIdle
    /\ LoopIdle
    /\ store \in {[i \in BrowserIds |-> NoRow],
                  [i \in BrowserIds |-> IF i = "1"
                                        THEN Row("other_stories", "H1Title", None, 0)
                                        ELSE NoRow]}
    /\ store0 = store
    /\ requests = <<>>
    /\ db_client = FALSE
    /\ ReconcileIdle

NextPipeline ==
    \/ PipelineStart
    \/ ExtractProductUrlsPage
    \/ PipelineAfterDiscover
    \/ ScrapeBatchAttempt
    \/ PipelineAfterExtract
    \/ PipelinePersist
    \/ PipelineException

SpecPipeline == InitPipeline /\ [][NextPipeline]_vars

(***************************************************************************)
(* ProductScraper._parse_price alone, on every price text of the model.    *)
(***************************************************************************)
InitPrice ==
    /\ pc = "parse_price"
    /\ RunIdle
    /\ SessionIdle
    /\ FetchIdle
    /\ products = <<>>
    /\ embedding_initialized = FALSE
    /\ stages = <<>>
    /\ pipeline_result = "pending"
    /\ driver = "none"
    /\ config = FullConfig
    /\ price_text \in PriceTexts
    /\ price_out = None
    /\ DiscoverIdle
    /\ ItemIdle
    /\ LoopIdle
    /\ StoreIdle
    /\ ReconcileIdle

NextPrice == ParsePriceCall

SpecPrice == InitPrice /\ [][NextPrice]_vars
(***************************************************************************)
(* Properties of the reconciler and of its place in the run.               *)
(***************************************************************************)
DeleteRequests == {i \in DOMAIN requests : requests[i].op = "delete"}

DeleteRequestedIds == UNION {requests[i].params.ids : i \in DeleteRequests}

HasRow(st, i) == st[i] # NoRow

\* the ids the store held for this source when the run began
PersistedIds == {i \in Ids : HasRow(store0, i) /\ store0[i].source = "scraper"}

ForeignIds == {i \in Ids : HasRow(store0, i) /\ store0[i].source # "scraper"}

StaleIds == PersistedIds \ Range(successful_product_ids)

AllRequestsSucceeded == \A i \in DOMAIN requests : requests[i].outcome = "ok"

\* C1: delete_missing_products never asks the store to delete an id of the
\* list of successful ids it was given, whatever rows the store holds and
\* whatever the outcome of each request is; the row of a successful id is
\* kept as it was, whatever its content.
C1_SuccessfulIdNeverDeleted ==
    /\ DeleteRequestedIds \cap Range(successful_product_ids) = {}
    /\ \A i \in Range(successful_product_ids) : store[i] = store0[i]

\* a run of the reconciler that deleted a stale row, with a failed request
\* among its requests, while a successful id has rows of either content
C1_Witness ==
    /\ pc = "done"
    /\ \E i \in DeleteRequests : requests[i].outcome = "ok"
    /\ \E i \in DeleteRequests : requests[i].outcome # "ok"
    /\ \E i \in Range(successful_product_ids) :
          /\ i \in PersistedIds
          /\ store0[i].emb # None
          /\ store[i] = store0[i]
    /\ \E i \in StaleIds : ~HasRow(store, i)

\* C2: when the query and every delete request succeed, the rows deleted are
\* exactly those of the ids the store held for this source that are not in
\* the list of successful ids; when there is no such id no delete request is
\* sent at all.
C2_DeletesExactlyStaleIds ==
    /\ (pc = "done" /\ requests # <<>> /\ AllRequestsSucceeded) =>
          /\ store = [i \in Ids |-> IF i \in StaleIds THEN NoRow ELSE store0[i]]
          /\ DeleteRequestedIds = StaleIds
          /\ deleted_count = Cardinality(StaleIds)
    /\ StaleIds = {} => DeleteRequests = {}

\* persisted {1, 2, 5, 7001}, of which {5} is successful together with an id
\* the store does not hold: more than one chunk is deleted
C2_Witness ==
    /\ pc = "done"
    /\ requests # <<>>
    /\ AllRequestsSucceeded
    /\ Cardinality(StaleIds) > chunk_size
    /\ Cardinality(DeleteRequests) > 1
    /\ \E i \in Range(successful_product_ids) : i \in PersistedIds /\ HasRow(store, i)
    /\ \E i \in Range(successful_product_ids) : i \notin PersistedIds

\* a run where nothing is stale: the query is the only request
C2_WitnessNoOp ==
    /\ pc = "done"
    /\ requests # <<>>
    /\ AllRequestsSucceeded
    /\ PersistedIds # {}
    /\ StaleIds = {}

LoopFinished == all_product_urls # <<>> /\ idx > Len(all_product_urls)

\* C3: within one run no delete request is sent before the item loop has
\* processed every discovered URL; a run interrupted before the loop is
\* over has deleted no row, it has only upserted rows.
C3_NoDeleteBeforeLoopEnds ==
    /\ DeleteRequests # {} => LoopFinished
    /\ ~LoopFinished =>
          /\ DeleteRequests = {}
          /\ \A i \in Ids : HasRow(store0, i) => HasRow(store, i)

\* a run interrupted in the loop after an upsert, with a stale row in the store
C3_Witness ==
    /\ interrupted
    /\ pc = "loop"
    /\ ~LoopFinished
    /\ successful_product_ids # <<>>
    /\ store # store0
    /\ StaleIds # {}

\* a run that went through the loop and deleted a stale row afterwards
C3_WitnessDeleted ==
    /\ LoopFinished
    /\ \E i \in DeleteRequests : requests[i].outcome = "ok"
    /\ \E i \in StaleIds : ~HasRow(store, i)

\* C4: the query of the ids and every delete request, bulk or one by one,
\* carry the filter source = "scraper"; a row of another source is never
\* deleted, whatever the list of successful ids is.
C4_SourceFilterOnEveryRequest ==
    /\ \A i \in DOMAIN requests : requests[i].params.source = "scraper"
    /\ \A i \in ForeignIds : store[i] = store0[i]

\* a run of the reconciler with a bulk delete and a one by one delete, on a
\* store with a row of another source whose id is not a successful id
C4_Witness ==
    /\ pc = "done"
    /\ \E i \in DeleteRequests : Cardinality(requests[i].params.ids) > 1
    /\ \E i \in DeleteRequests : Raised(requests[i].outcome)
    /\ \E i, j \in DeleteRequests : i < j /\ Raised(requests[i].outcome)
                                     /\ Cardinality(requests[j].params.ids) = 1
    /\ \E i \in ForeignIds : i \notin Range(successful_product_ids)
    /\ \E i \in StaleIds : ~HasRow(store, i)

(***************************************************************************)
(* Claims about discovery (SpecDiscover).                                  *)
(***************************************************************************)
RECURSIVE PagesUrls(_)
\* what pages 1..k of the catalog yield, in page order
PagesUrls(k) ==
    IF k = 0 THEN <<>>
    ELSE PagesUrls(k - 1) \o get_products_from_category_page(listing[k])

\* the first page without products, or max_pages + 1: the catalog ends there
RECURSIVE CatalogEnd(_)
CatalogEnd(k) ==
    IF k > max_pages \/ get_products_from_category_page(listing[k]) = <<>> THEN k
    ELSE CatalogEnd(k + 1)

Limited(s, limit) == IF limit = 0 THEN s ELSE Take(s, limit)

\* C5 (as claimed): discover returns each normalized (absolute, query- and
\* fragment-stripped) URL exactly once, in the first-seen order of those URLs.
C5_EachNormalizedUrlOnce ==
    pc = "discovered" =>
        all_product_urls =
            Limited(AppendNew(<<>>, MapSeq(Normalize, all_urls)), product_limit)

\* C6: when page k yields no item links, no later page is fetched and the
\* result is what pages 1..k-1 gave; never more than max_pages pages are fetched.
C6_StopsAtEmptyPage ==
    /\ Len(fetched) <= max_pages
    /\ \A i \in 1..Len(fetched) : fetched[i] = i
    /\ \A k \in Range(fetched) :
          get_products_from_category_page(listing[k]) = <<>> =>
              /\ Len(fetched) = k
              /\ pc = "discovered"
              /\ all_product_urls = UniqueUrls(PagesUrls(k - 1), product_limit)

C6_Witness ==
    /\ pc = "discovered"
    /\ Len(fetched) = 2
    /\ max_pages > 2
    /\ get_products_from_category_page(listing[2]) = <<>>
    /\ get_products_from_category_page(listing[3]) # <<>>
    /\ Len(all_product_urls) = 2

\* C7 (as claimed), on catalogs without JSON-LD links: with limit L the result
\* has exactly min(L, unique URLs available within max_pages pages) entries.
C7_LimitCountsUniqueUrls ==
    (/\ pc = "discovered"
     /\ product_limit # 0
     /\ \A k \in 1..max_pages : listing[k].ld = <<>>)
    => Len(all_product_urls) =
         Min(product_limit,
             Cardinality(Range(MapSeq(Normalize, PagesUrls(CatalogEnd(1) - 1)))))

\* C7 (amended): pagination stops at the first page at which the raw, not yet
\* deduplicated, count reaches the limit; the result is the first L unique
\* URLs of the pages fetched, so it has min(L, unique URLs fetched) entries.
C7_LimitStopsOnRawCount ==
    LET n == Len(fetched)
    IN  /\ \A k \in 1..(n - 1) :
              product_limit # 0 => Len(PagesUrls(k)) < product_limit
        /\ (pc = "discovered" /\ product_limit # 0) =>
              /\ Len(all_product_urls) =
                    Min(product_limit, Cardinality(Range(PagesUrls(n))))
              /\ all_product_urls = Take(AppendNew(<<>>, PagesUrls(n)), product_limit)
              /\ (n < CatalogEnd(1) /\ n < max_pages) => Len(PagesUrls(n)) >= product_limit

\* the limit stopped pagination although later pages hold further unique URLs
C7_Witness ==
    /\ pc = "discovered"
    /\ product_limit = 2
    /\ Len(fetched) = 2
    /\ Len(all_product_urls) = 1
    /\ CatalogEnd(1) > 3


(***************************************************************************)
(* Claims about discovery, CategoryScraper (SpecCategory).                 *)
(***************************************************************************)
\* what _extract_urls_from_page gives for page k, were it run on it
CatPageYield(k) ==
    IF CatPageUnavailable(listing[k]) THEN {} ELSE PageUrlSet(listing[k])

\* C6 (as claimed), for CategoryScraper.extract_product_urls: after a page
\* that yields no item links no later page is fetched.
C6_CategoryStopsAtEmptyPage ==
    \A k \in Range(fetched) : CatPageYield(k) = {} => Len(fetched) = k

\* extract_product_urls fetches at most max_pages pages, in order
CategoryPageLimit ==
    /\ Len(fetched) <= max_pages
    /\ \A i \in 1..Len(fetched) : fetched[i] = i


(***************************************************************************)
(* Claims about extraction (SpecExtract, SpecProductScraper).              *)
(***************************************************************************)
\* the page has a JSON-LD product block with a name and a priced offer
ValidStructuredBlock(pg) ==
    pg.ld.present /\ pg.ld.name = "val" /\ pg.ld.offers = "one"

\* C8 (as claimed): when the page has a valid structured product block, the
\* title and the price of the record returned are those of the block.
C8_StructuredBlockWins ==
    (pc = "scraped" /\ product_data # None /\ ValidStructuredBlock(soup))
    => product_data.title = "LdTitle" /\ product_data.price = "LdPrice"

\* the part of C8 the code keeps: the block wins when it carries no image
C8_StructuredBlockWinsWithoutImage ==
    (pc = "scraped" /\ product_data # None /\ ValidStructuredBlock(soup)
        /\ ~soup.ld.image)
    => product_data.title = "LdTitle" /\ product_data.price = "LdPrice"

\* some source of the page gives a title
TitleResolvable(pg) ==
    (pg.ld.present /\ pg.ld.name = "val") \/ pg.og_title \/ pg.title_tag

\* some source of the page gives an image URL
ImageResolvable(pg) == (pg.ld.present /\ pg.ld.image) \/ pg.og_image = "url" \/ pg.img

\* C9 (as claimed): no record without a title or without an id is returned;
\* a page from which no title can be resolved gives None.
C9_RejectsMissingTitleOrId ==
    pc = "scraped" =>
        /\ ~TitleResolvable(soup) => product_data = None
        /\ product_data # None =>
              /\ product_data.title \notin {Absent, "", "Unknown Product"}
              /\ product_data.id # Absent

\* C9 for ProductScraper.scrape_product
C9_BrowserRejectsMissingTitleOrId ==
    pc = "browser_scraped" =>
        /\ (~soup.title \/ _extract_product_id(product_url) = Absent)
              => product_data = None
        /\ product_data # None =>
              product_data.title # Absent /\ product_data.id # Absent

\* C10 (as claimed): a page with a title and an id but no resolvable image
\* is not rejected.
C10_MissingImageTolerated ==
    (/\ pc = "scraped"
     /\ soup.ok
     /\ TitleResolvable(soup)
     /\ ~JsonLdRaises(soup.ld)
     /\ ~ImageResolvable(soup))
    => product_data # None

\* C10 for ProductScraper.scrape_product
C10_BrowserMissingImageTolerated ==
    (/\ pc = "browser_scraped"
     /\ soup.loaded
     /\ soup.title
     /\ _extract_product_id(product_url) # Absent
     /\ ~soup.image)
    => product_data # None

\* what scrape_product does return: every record has an id and an image URL
ScrapedRecordHasImage ==
    (pc = "scraped" /\ product_data # None) =>
        /\ ~Falsy(product_data.image_url)
        /\ product_data.id # Absent

(***************************************************************************)
(* Properties of the embedding and of the upsert (Spec).                   *)
(***************************************************************************)
\* the provider gave a vector, of another length than EmbeddingDim
WrongLength(out) == out # None /\ out.ok /\ out.dim # EmbeddingDim

\* a step of the item loop that processed one URL
ItemStep == pc = "loop" /\ idx' = idx + 1

\* the column emb of the row of id i, None when the store has no such row
EmbOf(st, i) == IF st[i] = NoRow THEN None ELSE st[i].emb

\* C11: the embedding of a row of the store, when it has one, has exactly
\* EmbeddingDim (768) entries; when the provider gives a vector of another
\* length the record gets no embedding, it is still posted, and the row it
\* is merged into gets no embedding from it.
C11_EmbeddingHasDeclaredLength ==
    /\ [](\A i \in Ids : EmbOf(store, i) \in {None, Vector(EmbeddingDim)})
    /\ [](product_data # None => product_data.embedding \in {None, Vector(EmbeddingDim)})
    /\ [][(ItemStep /\ WrongLength(embedding_out')) =>
            /\ product_data' # None
            /\ product_data'.embedding = None
            /\ successful' = successful + 1 =>
                  /\ store'[product_data'.id] # NoRow
                  /\ store' = StoreUpsert(store, Payload(product_data', now))
                  /\ EmbOf(store', product_data'.id) = EmbOf(store, product_data'.id)
            /\ successful' = successful => failed' = failed + 1]_vars

\* the provider gave a vector of another length for a product the store did
\* not hold: its row was written, without an embedding
C11_Witness ==
    /\ WrongLength(embedding_out)
    /\ product_data # None
    /\ store0[product_data.id] = NoRow
    /\ store[product_data.id] # NoRow
    /\ store[product_data.id].emb = None
    /\ product_data.id \in Range(successful_product_ids)

(***************************************************************************)
(* Properties of the insert alone (SpecUpsert).                            *)
(***************************************************************************)
\* a step that is one call of insert_product or insert_products
InsertStep == pc \in {"upsert", "db_insert"} /\ idx' = idx + 1

\* the store holds a row for the record with the values the record gives
AlreadyPersisted ==
    /\ store[product_data.id] # NoRow
    /\ IF pc = "upsert"
       THEN store = StoreUpsert(store, Payload(product_data,
                                               store[product_data.id].created_at))
       ELSE store[product_data.id] =
                InsertedRow(product_data, store[product_data.id].created_at)

\* C12 (as claimed): persisting a record the store already holds, on a store
\* that works, leaves the store as it is (one row for the id, the same
\* values in every column) and the call does not fail.
C12_PersistTwiceEqualsOnce ==
    [][(InsertStep /\ AlreadyPersisted /\ insert_out' = "ok") =>
            (store' = store /\ successful' = successful + 1)]_vars

\* what insert_product keeps of C12: the second call succeeds and changes
\* no column but created_at, which gets the time of the second call
C12_UpsertKeepsAllButCreatedAt ==
    [][(InsertStep /\ pc = "upsert" /\ AlreadyPersisted /\ insert_out' = "ok") =>
            /\ successful' = successful + 1
            /\ store' = [store EXCEPT ![product_data.id].created_at = now]]_vars

\* what insert_products does on a record the store holds: the call fails
\* and the store is as it was
C12_PlainInsertFailsOnSecondCall ==
    [][(InsertStep /\ pc = "db_insert" /\ AlreadyPersisted) =>
            (store' = store /\ failed' = failed + 1)]_vars

(***************************************************************************)
(* Properties of get_page (SpecFetch, SpecFetchLive).                      *)
(***************************************************************************)
\* the positions of the log where an attempt began: its first request has
\* the headers of the session
AttemptStarts(log) == { i \in 1..Len(log) : log[i].kind = "plain" }

\* the requests of the attempt that began at position i
AttemptEnd(log, i) ==
    LET ends == { j - 1 : j \in { k \in AttemptStarts(log) : k > i } } \cup {Len(log)}
    IN  CHOOSE e \in ends : \A f \in ends : e <= f

\* the response an attempt ended with is the answer to its last request
AttemptSucceeded(log, i) == log[AttemptEnd(log, i)].out = "200"

Returned == pc = "got_page"

\* C13: get_page makes at most `retries` attempts and always returns; it
\* returns the document at the first attempt that succeeds, and null, not an
\* exception, when every one of the `retries` attempts failed, whatever the
\* failure was (no response, 403, another error status).
C13_FetchTerminatesWithinRetries ==
    /\ [](Cardinality(AttemptStarts(site_log)) <= retries)
    /\ <>Returned
    /\ [](Returned => fetch_result \in {"document", "null"})
    /\ [](~Returned => /\ fetch_result = "pending"
                       /\ \A i \in AttemptStarts(site_log) : ~AttemptSucceeded(site_log, i))
    /\ [](fetch_result = "document" =>
            \A i \in AttemptStarts(site_log) :
                AttemptSucceeded(site_log, i) <=> AttemptEnd(site_log, i) = Len(site_log))
    /\ [](fetch_result = "null" =>
            /\ Cardinality(AttemptStarts(site_log)) = retries
            /\ \A i \in AttemptStarts(site_log) : ~AttemptSucceeded(site_log, i))

\* the third attempt failed without a response and get_page returned null
C13_Witness ==
    /\ Returned
    /\ fetch_result = "null"
    /\ Cardinality(AttemptStarts(site_log)) = retries
    /\ site_log[Len(site_log)] = Rq("plain", "raise")

\* the second attempt succeeded and get_page returned the document
C13_WitnessDocument ==
    /\ Returned
    /\ fetch_result = "document"
    /\ Cardinality(AttemptStarts(site_log)) = 2

\* what follows request i in the log: "end" after the last one
NextKind(log, i) == IF i < Len(log) THEN log[i + 1].kind ELSE "end"

\* request i is the last one of its attempt
AttemptOver(log, i) ==
    /\ log[i].kind \in {"plain", "enhanced", "minimal"}
    /\ NextKind(log, i) \in {"homepage", "plain", "end"}

\* request i is the retry of strategy (b): it follows the visit of the root
IsStrategyB(log, i) == log[i].kind = "enhanced" /\ i > 1 /\ log[i - 1].kind = "cookies"

IsStrategyA(log, i) == log[i].kind = "enhanced" /\ ~IsStrategyB(log, i)

\* the order of the strategies up to strategy (b), and the verdict of the
\* attempt
EscalationOrder(log) ==
    \A i \in 1..Len(log) :
        /\ log[i].kind = "homepage" => NextKind(log, i) = "plain"
        /\ log[i].kind = "plain" =>
              IF log[i].out = "403" THEN NextKind(log, i) = "enhanced"
              ELSE AttemptOver(log, i)
        /\ IsStrategyA(log, i) =>
              /\ log[i - 1] = Rq("plain", "403")
              /\ IF log[i].out = "403" THEN NextKind(log, i) = "cookies"
                 ELSE AttemptOver(log, i)
        /\ log[i].kind = "cookies" =>
              /\ log[i - 1] = Rq("enhanced", "403")
              /\ NextKind(log, i) = "enhanced"
        /\ log[i].kind = "minimal" => /\ IsStrategyB(log, i - 1)
                                      /\ AttemptOver(log, i)
        /\ (AttemptOver(log, i) /\ log[i].out = "200") =>
              (i = Len(log) /\ fetch_result = "document")
        /\ (AttemptOver(log, i) /\ log[i].out # "200" /\ i = Len(log)) =>
              fetch_result # "document"

\* C14 (as claimed): strategy (c) is requested only if the response of
\* strategy (b) is 403; with the order of the strategies and the verdict of
\* the attempt as in the amended statement.
C14_LaterStrategyOnlyAfter403 ==
    /\ EscalationOrder(site_log)
    /\ \A i \in 1..Len(site_log) :
          IsStrategyB(site_log, i) =>
              IF site_log[i].out = "403" THEN NextKind(site_log, i) = "minimal"
              ELSE AttemptOver(site_log, i)

\* C14 (amended): a 403 starts the strategies in the order (a), (b), (c);
\* (a) and (b) are requested only after a 403 response of the request
\* before; (c) is requested when the retry of (b) was answered 403 and also
\* when it got no response at all (its exception is passed over and the 403
\* of (a) still stands); the attempt succeeds with the first response that
\* is not an error and fails when its last response is 403 or another error.
C14_StrategiesEscalateOn403 ==
    /\ EscalationOrder(site_log)
    /\ \A i \in 1..Len(site_log) :
          IsStrategyB(site_log, i) =>
              IF site_log[i].out \in {"403", "raise"}
              THEN NextKind(site_log, i) = "minimal"
              ELSE AttemptOver(site_log, i)

\* the retry of strategy (b) got no response, strategy (c) was requested
\* and its answer made the attempt a success
C14_Witness ==
    /\ Returned
    /\ fetch_result = "document"
    /\ Len(site_log) = 5
    /\ site_log[1] = Rq("plain", "403")
    /\ site_log[2] = Rq("enhanced", "403")
    /\ site_log[3].kind = "cookies"
    /\ site_log[4] = Rq("enhanced", "raise")
    /\ site_log[5] = Rq("minimal", "200")

\* all three strategies were answered 403: the attempt failed
C14_WitnessAll403 ==
    /\ Len(site_log) = 5
    /\ site_log[4] = Rq("enhanced", "403")
    /\ site_log[5] = Rq("minimal", "403")
    /\ fetch_result = "pending"
    /\ attempt = 1

\* C15: after the k-th attempt of a fetch failed (k = 1, 2, ...), and it
\* was not the last one, get_page waits k * 3 seconds before the next
\* attempt, so each wait is longer than the one before by the same 3
\* seconds; after the last attempt it does not wait.  The wait is the same
\* whatever made the attempt fail, a network error included.
C15_BackoffGrowsLinearly ==
    /\ \A k \in 1..Len(waits) : waits[k] = k * 3
    /\ \A k \in 1..(Len(waits) - 1) : waits[k + 1] = waits[k] + 3
    /\ Len(waits) <= retries - 1
    /\ ~Returned => Len(waits) = Cardinality(AttemptStarts(site_log))
    /\ Returned => Len(waits) = Cardinality(AttemptStarts(site_log)) - 1

\* three attempts got no response: two waits, of 3 and 6 seconds, and none
\* after the third
C15_Witness ==
    /\ Returned
    /\ fetch_result = "null"
    /\ waits = <<3, 6>>
    /\ \A i \in 1..Len(site_log) : site_log[i].kind = "plain" => site_log[i].out = "raise"
    /\ Cardinality(AttemptStarts(site_log)) = retries

(***************************************************************************)
(* Properties of the whole run (Spec).                                     *)
(***************************************************************************)
IsRootVisit(rq) == rq.kind \in {"cookies", "homepage"}

IsPageRequest(rq) == rq.kind \in {"listing", "detail"}

\* C16: the first request of a run is the visit of the site root, so a
\* root visit comes before every listing and detail page request; whatever
\* the visit gives, the run goes on to discovery, where the fetch of the
\* first listing page can be made.
C16_RootVisitBeforeFirstPage ==
    /\ [](site_log # <<>> => site_log[1].kind = "cookies")
    /\ [](\A i \in 1..Len(site_log) :
             IsPageRequest(site_log[i]) => \E j \in 1..(i - 1) : IsRootVisit(site_log[j]))
    /\ [][(pc = "start" /\ site_log' # site_log) => pc' = "discover"]_vars
    /\ []((pc = "discover" /\ fetched = <<>> /\ ~interrupted) => ENABLED DiscoverPage)

\* the visit of the root failed, and so did the one get_page made itself;
\* the first listing page was requested all the same
C16_Witness ==
    /\ Len(site_log) >= 3
    /\ site_log[1] = Rq("cookies", "raise")
    /\ site_log[2] = Rq("homepage", "raise")
    /\ site_log[3].kind = "listing"
    /\ fetched # <<>>
    /\ ~homepage_visited

(***************************************************************************)
(* The fallback of the reconciler (SpecReconcile).                         *)
(***************************************************************************)
\* a step that sent the bulk delete of a chunk
BulkDeleteStep == pc = "delete_bulk" /\ Len(requests') = Len(requests) + 1

\* a step that sent the delete of one id
SingleDeleteStep == pc = "delete_single" /\ Len(requests') = Len(requests) + 1

LastOutcome(reqs) == reqs[Len(reqs)].outcome

\* C17 (as claimed): a bulk delete that fails, by an exception or by an
\* error status, is followed by the deletes of the ids of its chunk one at
\* a time; a delete of one id that fails is followed by the next id, and
\* after the chunk by the next chunk.
C17_FailedBulkDeleteFallsBack ==
    [][/\ (BulkDeleteStep /\ LastOutcome(requests') # "ok") =>
            (pc' = "delete_single" /\ fallback_at' = 1 /\ chunk_at' = chunk_at)
       /\ SingleDeleteStep =>
            IF fallback_at < Len(Chunk(to_delete, chunk_at))
            THEN pc' = "delete_single" /\ fallback_at' = fallback_at + 1
            ELSE pc' \in {"delete_bulk", "done"} /\ chunk_at' = NextChunkStart(chunk_at)]_vars

\* what delete_missing_products does: the fallback follows a bulk delete
\* that raised; after an error status the chunk is given up, its ids are
\* not asked for again, and the loop goes to the next chunk
C17_FallbackOnlyAfterException ==
    [][/\ (BulkDeleteStep /\ Raised(LastOutcome(requests'))) =>
            (pc' = "delete_single" /\ fallback_at' = 1 /\ chunk_at' = chunk_at)
       /\ (BulkDeleteStep /\ LastOutcome(requests') = "status") =>
            /\ pc' \in {"delete_bulk", "done"}
            /\ chunk_at' = NextChunkStart(chunk_at)
            /\ store' = store
       /\ SingleDeleteStep =>
            IF fallback_at < Len(Chunk(to_delete, chunk_at))
            THEN pc' = "delete_single" /\ fallback_at' = fallback_at + 1
            ELSE pc' \in {"delete_bulk", "done"} /\ chunk_at' = NextChunkStart(chunk_at)]_vars

\* every stale id was asked for in some delete request when the reconciler
\* is done, whatever failed on the way
C17_EveryStaleIdAttempted ==
    (pc = "done" /\ ~interrupted /\ to_delete # <<>>) => Range(to_delete) \subseteq DeleteRequestedIds

(***************************************************************************)
(* Properties of the item loops (SpecItems).                               *)
(***************************************************************************)
\* the item failed: no page, an exception, no record, or the store did not
\* take it
ItemFailed(pg, data, ins) ==
    \/ pg = Exception
    \/ pg = NoSoup
    \/ data = None
    \/ ins \in StoreOutcomes \ {"ok"}

\* the embedding provider was asked and gave nothing usable
EmbeddingFailed(out) == out # None /\ generate_embedding(out) = None

\* a step of _scrape_batch: one attempt on one URL
BatchStep == pc = "batch" /\ (idx' # idx \/ attempt' # attempt)

\* the loop is over
ItemsDone == pc \in {"reconcile", "done", "batch_done"}

\* C18: a step of the item loop of run always moves to the next URL and
\* counts the item once: as failed when the page was unavailable, the
\* extraction gave nothing, the upsert failed or an exception came up, as
\* successful otherwise, an item whose embedding failed being upserted
\* without embedding; an attempt of _scrape_batch that fails is followed by
\* the next attempt or, after max_retries attempts, the next URL; both loops
\* end only when every URL was processed.
C18_ItemFailureNeverAborts ==
    /\ [][ItemStep =>
            /\ successful' + failed' = successful + failed + 1
            /\ ItemFailed(soup', product_data', insert_out') <=> failed' = failed + 1
            /\ (EmbeddingFailed(embedding_out') /\ insert_out' = "ok") =>
                  /\ successful' = successful + 1
                  /\ product_data'.embedding = None
                  /\ store'[product_data'.id] # NoRow
            /\ pc' = IF idx' <= Len(all_product_urls) THEN "loop" ELSE pc']_vars
    /\ [][BatchStep =>
            /\ idx' \in {idx, idx + 1}
            /\ idx' = idx => (attempt' = attempt + 1 /\ products' = products)
            /\ products' # products => (idx' = idx + 1 /\ Len(products') = Len(products) + 1)
            /\ pc' = IF idx' <= Len(all_product_urls) THEN "batch" ELSE "batch_done"]_vars
    /\ [](attempt < max_retries)
    /\ [](pc = "loop" => (idx <= Len(all_product_urls) /\ successful + failed = idx - 1))
    /\ [](ItemsDone => idx = Len(all_product_urls) + 1)
    /\ []((ItemsDone /\ pc # "batch_done") => successful + failed = Len(all_product_urls))

\* run met an exception on its second URL after a first one it persisted:
\* one success, one failure, the loop is over
C18_Witness ==
    /\ ItemsDone
    /\ Len(all_product_urls) = 2
    /\ soup = Exception
    /\ successful = 1
    /\ failed = 1

\* _scrape_batch gave up its first URL after max_retries attempts and got
\* the product of the second
C18_WitnessBatch ==
    /\ pc = "batch_done"
    /\ Len(all_product_urls) = 2
    /\ Len(products) = 1
    /\ products[1].product_url = all_product_urls[2]

\* an embedding failed and the item was persisted without it
C18_WitnessNoEmbedding ==
    /\ idx > 1
    /\ EmbeddingFailed(embedding_out)
    /\ insert_out = "ok"
    /\ successful >= 1
    /\ product_data.embedding = None

(***************************************************************************)
(* Exceptions of the extraction (SpecExtractors).                          *)
(***************************************************************************)
\* the extraction of the page at hand raises
ExtractionRaises ==
    \/ pc \in {"scrape", "scraped"} /\ soup.ok /\ ExtractFields(product_url, soup) = Exception
    \/ /\ pc \in {"browser_scrape", "browser_scraped"}
       /\ soup.loaded
       /\ BrowserExtract(product_url, soup) = Exception

\* a step that is one call of scrape_product, of either extractor
ExtractStep == pc \in {"scrape", "browser_scrape"} /\ pc' # pc

\* C19: when the extraction of the fields of a fetched page raises, in
\* scrape_product of either extractor, the call returns None: the call
\* ends, and what it hands to the driver is never the exception.
C19_ExtractionExceptionGivesNull ==
    /\ [][(ExtractStep /\ ExtractionRaises) =>
             (product_data' = None /\ pc' \in {"scraped", "browser_scraped"})]_vars
    /\ [](product_data # Exception)

\* a page with a JSON-LD price that is not a number: float() raised and
\* scrape_product returned None
C19_Witness ==
    /\ pc = "scraped"
    /\ soup.ok
    /\ JsonLdRaises(soup.ld)
    /\ product_data = None

\* an extractor of ProductScraper raised on a loaded page with every
\* required field
C19_WitnessBrowser ==
    /\ pc = "browser_scraped"
    /\ soup.loaded /\ soup.raises /\ soup.title /\ soup.image
    /\ product_data = None

(***************************************************************************)
(* The end of run_full_pipeline (SpecPipeline).                            *)
(***************************************************************************)
StageOrder == <<"Initializing", "Discovering", "Extracting", "Embedding", "Persisting">>

Entered(stage) == \E i \in DOMAIN stages : stages[i] = stage

PipelineDone == pc = "pipeline_done"

\* a step that entered the stage
Enters(stage) == ~Entered(stage) /\ Entered(stage)'

\* C20: run_full_pipeline returns False when the store connection (or
\* another component) fails, when no URL is discovered, when no product is
\* extracted and when the write to the store fails; the steps are entered
\* in their order, Discovering only with a connected store, Extracting only
\* with a URL, Embedding and Persisting only with a product; it returns True
\* only from Persisting, when insert_products succeeded and the rows are in
\* the store.
C20_PipelineFailsWithoutLaterStage ==
    /\ [](stages = SubSeq(StageOrder, 1, Len(stages)))
    /\ [](PipelineDone <=> pipeline_result \in {"true", "false"})
    /\ [][Enters("Discovering") => db_client']_vars
    /\ [](Entered("Extracting") => all_product_urls # <<>>)
    /\ []((Entered("Embedding") \/ Entered("Persisting")) => products # <<>>)
    /\ []((PipelineDone /\ ~Entered("Discovering")) => pipeline_result = "false")
    /\ []((PipelineDone /\ all_product_urls = <<>>) => pipeline_result = "false")
    /\ []((PipelineDone /\ products = <<>>) => pipeline_result = "false")
    /\ []((PipelineDone /\ ~Entered("Persisting")) => (pipeline_result = "false" /\ store = store0))
    /\ [][Enters("Persisting") =>
            /\ pipeline_result' = "true" <=> (insert_out' = "ok" /\ ~Conflict(store, products))
            /\ pipeline_result' = "true" => store' = StoreInsert(store, products, now)]_vars
    /\ [](pipeline_result = "true" =>
            (Entered("Persisting") /\ \A i \in DOMAIN products : store[products[i].id] # NoRow))

\* two products were extracted and the store refused the write: False
C20_Witness ==
    /\ PipelineDone
    /\ stages = StageOrder
    /\ Len(products) = 2
    /\ insert_out = "status"
    /\ pipeline_result = "false"
    /\ store = store0

\* no URL was discovered: False, and nothing after Discovering was entered
C20_WitnessZeroUrls ==
    /\ PipelineDone
    /\ stages = <<"Initializing", "Discovering">>
    /\ fetched # <<>>
    /\ all_product_urls = <<>>
    /\ pipeline_result = "false"

\* URLs were discovered, no product was extracted: False after Extracting
C20_WitnessZeroProducts ==
    /\ PipelineDone
    /\ stages = <<"Initializing", "Discovering", "Extracting">>
    /\ idx = Len(all_product_urls) + 1
    /\ products = <<>>
    /\ pipeline_result = "false"

\* the pipeline succeeded
C20_WitnessSuccess ==
    /\ PipelineDone
    /\ pipeline_result = "true"
    /\ stages = StageOrder

\* the driver of the REST variant, lines 912-914: without any URL run
\* returns before the item loop, nothing is upserted or deleted
C20_RunStopsOnZeroUrls ==
    (pc = "done" /\ all_product_urls = <<>>) =>
        (idx = 1 /\ successful = 0 /\ failed = 0 /\ requests = <<>> /\ store = store0)

\* a run whose listing gave no URL ended right after discovery
C20_WitnessRunZeroUrls ==
    /\ pc = "done"
    /\ fetched # <<>>
    /\ all_product_urls = <<>>
    /\ ~interrupted


(***************************************************************************)
(* C21: the driver and the store client when run_full_pipeline has         *)
(* returned.                                                               *)
(***************************************************************************)
Released == driver # "running" /\ db_client = FALSE

\* a step in which run_full_pipeline returns
Returns == pc # "pipeline_done" /\ pc' = "pipeline_done"

ReconcilePcs == {"reconcile", "delete_bulk", "delete_single"}

\* a step of delete_missing_products: it sends one request to the store
ReconcileStep == pc \in ReconcilePcs /\ requests' # requests

\* the request sent by the step did not succeed
RequestFailed == requests'[Len(requests')].outcome # "ok"

\* what delete_missing_products has left to do: the query, then for every
\* chunk the bulk delete and the single deletes of its fallback
ReconcileLeft ==
    IF pc = "done" THEN 0
    ELSE IF pc = "reconcile" THEN (Cardinality(Ids) + 1) * (chunk_size + 1)
    ELSE (Len(to_delete) - chunk_at) * (chunk_size + 1) - fallback_at

\* C22: a failed query or delete request of the reconciler does not stop the
\* run: the reconciler goes on to its next request or returns, and the run
\* ends normally; no step of the reconciler changes the row of an id that
\* was upserted successfully in this run, and these rows are in the store
\* when the run is over; a row that a step removes is a row of this source
\* whose id is not a successful one, so the rows deleted are a subset of the
\* stale ones, none when the query failed.
C22_ReconcileFailureIsNotFatal ==
    /\ [][(ReconcileStep /\ RequestFailed) =>
             /\ pc' \in (ReconcilePcs \ {"reconcile"}) \cup {"done"}
             /\ ReconcileLeft' < ReconcileLeft
             /\ interrupted' = interrupted]_vars
    /\ [][(ReconcileStep /\ pc = "reconcile" /\ RequestFailed) =>
             (pc' = "done" /\ store' = store)]_vars
    /\ [][ReconcileStep =>
             /\ ReconcileLeft' < ReconcileLeft
             /\ \A i \in Range(successful_product_ids) : store'[i] = store[i]
             /\ \A i \in Ids : store'[i] # store[i] =>
                   /\ store'[i] = NoRow
                   /\ store[i].source = "scraper"
                   /\ i \notin Range(successful_product_ids)
                   /\ i \in Range(to_delete)]_vars
    /\ []((pc \in ReconcilePcs \cup {"done"} /\ ~test_mode) =>
             \A i \in Range(successful_product_ids) :
                 HasRow(store, i) /\ store[i].source = "scraper")

\* a run that upserted a record, whose reconciler had a failed bulk delete
\* and a failed single delete, deleted one stale row and kept another
C22_Witness ==
    /\ pc = "done"
    /\ ~interrupted
    /\ \E i \in DeleteRequests : requests[i].outcome \in {"status", "raise"}
    /\ \E i \in Range(successful_product_ids) : store[i] # store0[i]
    /\ \E i \in StaleIds : ~HasRow(store, i)
    /\ \E i \in StaleIds : HasRow(store, i)

\* a run whose query of the persisted ids failed: nothing is deleted
C22_WitnessQueryFailed ==
    /\ pc = "done"
    /\ ~interrupted
    /\ Len(requests) > 0
    /\ requests[Len(requests)].op = "select"
    /\ requests[Len(requests)].outcome # "ok"
    /\ StaleIds # {}
    /\ \A i \in StaleIds : HasRow(store, i)
    /\ \E i \in Range(successful_product_ids) : store[i] # store0[i]

(***************************************************************************)
(* C23: the links taken from one listing page.                             *)
(***************************************************************************)
\* C23: the URLs gathered from the first listing page come from one method:
\* those of the JSON-LD blocks when there is any, those of the anchor
\* elements otherwise; the two are never put together.
C23_OneMethodPerPage ==
    (fetched = <<1>> /\ listing[1].ok) =>
        all_urls = IF JsonLdUrls(listing[1]) # <<>> THEN JsonLdUrls(listing[1])
                   ELSE AnchorUrls(listing[1])

\* what get_products_from_category_page does: the anchor URLs always,
\* followed by the URLs of the JSON-LD blocks
C23_AnchorsThenStructured ==
    (fetched = <<1>> /\ listing[1].ok) =>
        all_urls = AnchorUrls(listing[1]) \o JsonLdUrls(listing[1])

\* a first page with a product anchor and a JSON-LD block of another product
C23_WitnessBoth ==
    /\ fetched = <<1>>
    /\ AnchorUrls(listing[1]) # <<>>
    /\ JsonLdUrls(listing[1]) # <<>>
    /\ Range(AnchorUrls(listing[1])) \cap Range(JsonLdUrls(listing[1])) = {}
    /\ Len(all_urls) = 2

\* CategoryScraper._extract_urls_from_page: the embedded JSON when it gives
\* a URL, the anchors otherwise (under SpecCategory)
C23_BrowserOneMethodPerPage ==
    (fetched = <<1>> /\ ~CatPageUnavailable(listing[1])) =>
        Range(all_urls) = IF _extract_urls_from_json(listing[1]) # <<>>
                          THEN Range(_extract_urls_from_json(listing[1]))
                          ELSE Range(_extract_urls_from_html(listing[1]))

C23_WitnessBrowser ==
    /\ fetched = <<1>>
    /\ _extract_urls_from_json(listing[1]) # <<>>
    /\ listing[1].html # <<>>
    /\ Range(all_urls) = Range(_extract_urls_from_json(listing[1]))

(***************************************************************************)
(* C24: the ids in successful_product_ids.                                 *)
(***************************************************************************)
NoDuplicates(s) == \A i, j \in DOMAIN s : i # j => s[i] # s[j]

\* C24: at every point of a run no id is twice in successful_product_ids:
\* two distinct discovered URLs never give the same id.
C24_NoIdTwice == NoDuplicates(successful_product_ids)

\* what the run does keep: the discovered URLs are distinct and each adds at
\* most one entry, the id computed from it
C24_OneEntryPerUrl ==
    /\ NoDuplicates(all_product_urls)
    /\ Len(successful_product_ids) = successful
    /\ pc \in {"loop", "reconcile", "done"} =>
          /\ successful <= idx - 1
          /\ \A i \in DOMAIN successful_product_ids :
                \E k \in 1..(idx - 1) :
                    successful_product_ids[i] = ExtractId(all_product_urls[k])

\* two distinct URLs with the same numeric suffix were both persisted
C24_WitnessSameSuffix ==
    /\ pc = "done"
    /\ ~interrupted
    /\ NoDuplicates(all_product_urls)
    /\ successful_product_ids = <<"otherstories_1", "otherstories_2", "otherstories_1">>

(***************************************************************************)
(* C25: _parse_price (SpecPrice).                                          *)
(***************************************************************************)
PriceParsed == pc = "price_parsed"

\* the symbols that occur in the text
SymbolsIn(t) == {c \in Range(t) : c \in PriceSymbols}

\* the characters of the number of the text, the separator replaced by a dot
NumberIn(t) ==
    MapSeq(LAMBDA c : IF c = "," THEN "." ELSE c,
           FilterSeq(LAMBDA c : IsDigit(c) \/ c \in {".", ","}, t))

HasNumber(t) == \E i \in DOMAIN t : IsDigit(t[i])

\* C25: a price text with a number and at most one currency symbol is parsed
\* to the amount of the number, a comma read as the decimal point, and to
\* the code the table has for its symbol, the default currency when it has
\* no symbol.
C25_PriceParsed ==
    (PriceParsed /\ HasNumber(price_text) /\ Cardinality(SymbolsIn(price_text)) <= 1) =>
        /\ price_out # None
        /\ price_out.price = ToCents(NumberIn(price_text))
        /\ SymbolsIn(price_text) = {} => price_out.currency = "EUR"
        /\ \A s \in SymbolsIn(price_text) \cap DOMAIN currency_map :
              price_out.currency = currency_map[s]

\* what holds: the amount is always that of the number; the currency is that
\* of a symbol which is in front of the number, the default in every other
\* case, also when a symbol follows the number; a text without a digit gives
\* nothing
C25_SymbolBeforeNumberOnly ==
    PriceParsed =>
        /\ HasNumber(price_text) <=> price_out # None
        /\ (HasNumber(price_text) /\ Cardinality(SymbolsIn(price_text)) <= 1) =>
              /\ price_out.price = ToCents(NumberIn(price_text))
              /\ price_out.currency =
                    IF IsDigit(SplitJoin(price_text)[1]) THEN "EUR"
                    ELSE CurrencyOf(SplitJoin(price_text)[1])

\* the examples: "€49,90" is 49.90 EUR, "$49.99" is 49.99 USD, "49" is 49.0
\* in the default currency
C25_Examples ==
    PriceParsed =>
        /\ price_text = <<"€", "4", "9", ",", "9", "0">> =>
              price_out = [price |-> 4990, currency |-> "EUR"]
        /\ price_text = <<"$", "4", "9", ".", "9", "9">> =>
              price_out = [price |-> 4999, currency |-> "USD"]
        /\ price_text = <<"4", "9">> => price_out = [price |-> 4900, currency |-> "EUR"]

C25_WitnessComma ==
    /\ PriceParsed
    /\ price_text = <<"€", "4", "9", ",", "9", "0">>
    /\ price_out = [price |-> 4990, currency |-> "EUR"]

\* "49.99 $" is parsed to 49.99 EUR
C25_WitnessSymbolAfter ==
    /\ PriceParsed
    /\ price_text = <<"4", "9", ".", "9", "9", " ", "$">>
    /\ price_out = [price |-> 4999, currency |-> "EUR"]

(***************************************************************************)
(* C26: a run of run_full_pipeline with an incomplete configuration.       *)
(***************************************************************************)
ConfigError == ~config.credentials \/ ~config.category_url

\* C26: with missing store credentials or a missing category URL the run
\* aborts before anything was started: the browser was never started, no
\* page was fetched and the store was not written.
C26_ConfigErrorBeforeNetwork ==
    (ConfigError /\ pc # "pipeline") =>
        /\ PipelineDone
        /\ pipeline_result = "false"
        /\ driver = "none"
        /\ fetched = <<>>
        /\ store = store0

\* what holds: the error is fatal, the run returns False without entering
\* Discovering, fetches no page and leaves the store as it was
C26_ConfigErrorIsFatal ==
    (ConfigError /\ pc # "pipeline") =>
        /\ PipelineDone
        /\ pipeline_result = "false"
        /\ stages = <<"Initializing">>
        /\ fetched = <<>>
        /\ store = store0
        /\ db_client = FALSE

\* the store credentials are missing: the browser was started, then quit
C26_WitnessBrowserStarted ==
    /\ ~config.credentials
    /\ config.category_url
    /\ PipelineDone
    /\ pipeline_result = "false"
    /\ driver = "quit"

\* the category URL is missing: the browser was started and the store
\* client created before the run gave up
C26_WitnessNoCategoryUrl ==
    /\ config.credentials
    /\ ~config.category_url
    /\ PipelineDone
    /\ driver = "quit"

(***************************************************************************)
(* C27: when the reconciler is left out of a run.                          *)
(***************************************************************************)
ReconcilerSkipped == test_mode \/ successful_product_ids = <<>>

\* C27: in test mode, and as long as no id is in successful_product_ids,
\* the reconciler is not called and no request, in particular no delete, is
\* sent to the store for it; a run in which no item succeeded ends with
\* every row the store had still in it.
C27_NoReconcileWithoutSuccess ==
    /\ ReconcilerSkipped =>
          /\ pc \notin ReconcilePcs
          /\ requests = <<>>
          /\ \A i \in Ids : HasRow(store0, i) => HasRow(store, i)
    /\ (pc = "done" /\ successful_product_ids = <<>>) => PersistedIds \subseteq
          {i \in Ids : HasRow(store, i) /\ store[i].source = "scraper"}
    /\ (test_mode /\ pc = "done") => store = store0

\* a run outside test mode in which every item failed, on a store that holds
\* rows of this source: the run is over and nothing was asked of the store
C27_Witness ==
    /\ pc = "done"
    /\ ~interrupted
    /\ ~test_mode
    /\ Len(all_product_urls) > 1
    /\ failed = Len(all_product_urls)
    /\ successful_product_ids = <<>>
    /\ PersistedIds # {}
    /\ requests = <<>>

\* a run in test mode with successful items
C27_WitnessTestMode ==
    /\ pc = "done"
    /\ test_mode
    /\ successful_product_ids # <<>>
    /\ PersistedIds # {}
    /\ requests = <<>>

(***************************************************************************)
(* C28: what puts an id into successful_product_ids.                       *)
(***************************************************************************)
\* the item of the step was extracted and, outside test mode, its upsert
\* returned success
ItemSaved ==
    /\ soup' # Exception
    /\ soup' # NoSoup
    /\ product_data' # None
    /\ test_mode \/ insert_out' = "ok"

\* the ids the reconciler of this run will be asked to delete
TreatedAsStale == PersistedIds \ Range(successful_product_ids)

\* C28: a step of the item loop appends the id of its item to
\* successful_product_ids exactly when the record was extracted and its
\* upsert returned success (in test mode: when it was extracted), and
\* nothing else changes the list; the reconciler is given that list, so the
\* id of a row persisted by an earlier run whose item did not succeed in
\* this run is among the ids it deletes.
C28_OnlySavedIdsAreSuccessful ==
    /\ [][ItemStep =>
            /\ ItemSaved =>
                  /\ successful_product_ids' = Append(successful_product_ids, product_data'.id)
                  /\ product_data'.id = ExtractId(product_url')
                  /\ ~test_mode => store'[product_data'.id] # NoRow
            /\ ~ItemSaved => successful_product_ids' = successful_product_ids]_vars
    /\ [][~ItemStep => successful_product_ids' = successful_product_ids
                       \/ (pc = "discovered" /\ successful_product_ids' = <<>>)]_vars
    /\ [][(pc = "reconcile" /\ pc' = "delete_bulk") =>
             Range(to_delete') = {i \in Ids : HasRow(store, i) /\ store[i].source = "scraper"}
                                     \ Range(successful_product_ids)]_vars
    /\ []((pc = "done" /\ ~interrupted /\ requests # <<>> /\ AllRequestsSucceeded) =>
             \A i \in TreatedAsStale : ~HasRow(store, i))

\* the store held a row for the id of an item whose upsert failed in this
\* run; another item succeeded, and the reconciler deleted that row
C28_Witness ==
    /\ pc = "done"
    /\ ~interrupted
    /\ ~test_mode
    /\ AllRequestsSucceeded
    /\ \E i \in PersistedIds :
          /\ \E k \in DOMAIN all_product_urls : ExtractId(all_product_urls[k]) = i
          /\ i \notin Range(successful_product_ids)
          /\ ~HasRow(store, i)
    /\ successful_product_ids # <<>>
    /\ failed > 0

(***************************************************************************)
(* C29: the counters of the item loop of run.                              *)
(***************************************************************************)
InItemLoop == pc = "loop"

AfterItemLoop == pc \in ReconcilePcs \/ (pc = "done" /\ all_product_urls # <<>>)

\* C29: every discovered URL is counted exactly once: at the head of the
\* loop, with n URLs processed, successful + failed = n; each iteration
\* adds one to exactly one of the two counters; after the loop their sum is
\* the number of discovered URLs; successful_product_ids never has more
\* than `successful` entries.
C29_EveryUrlCountedOnce ==
    /\ [](InItemLoop => (idx - 1 < Len(all_product_urls) /\ successful + failed = idx - 1))
    /\ [][ItemStep => \/ (successful' = successful + 1 /\ failed' = failed)
                      \/ (successful' = successful /\ failed' = failed + 1)]_vars
    /\ [][~ItemStep => (pc = "discovered" \/ <<successful, failed>>' = <<successful, failed>>)]_vars
    /\ [](AfterItemLoop => successful + failed = Len(all_product_urls))
    /\ [](Len(successful_product_ids) <= successful)

\* three URLs were discovered; two items succeeded and one failed
C29_Witness ==
    /\ AfterItemLoop
    /\ ~interrupted
    /\ Len(all_product_urls) = 3
    /\ successful = 2
    /\ failed = 1
    /\ Len(successful_product_ids) = 2

(***************************************************************************)
(* C30: a run over a catalog with a listing page whose fetch fails.        *)
(***************************************************************************)
FailedPage == ListingPage(FALSE, <<>>, <<>>)

EmptyPage == ListingPage(TRUE, <<>>, <<>>)

DressPage == ListingPage(TRUE, <<Link("root", "dress-1/", "")>>, <<>>)

CoatPage ==
    ListingPage(TRUE, <<Link("root", "dress-1/", ""), Link("root", "coat-2/", "")>>, <<>>)

GiftPage == ListingPage(TRUE, <<Link("abs", "gift-card/", "")>>, <<>>)

\* catalogs of max_pages pages with a failed page first, in the middle or
\* last, and the same with an empty page
FailedFetchListings ==
    { <<FailedPage, DressPage, CoatPage>>,
      <<DressPage, FailedPage, CoatPage>>,
      <<CoatPage, FailedPage, GiftPage>>,
      <<DressPage, EmptyPage, CoatPage>>,
      <<DressPage, CoatPage, FailedPage>> }

InitFailedFetch ==
    /\ pc = "start"
    /\ interrupted = FALSE
    /\ test_mode = FALSE
    /\ SessionIdle
    /\ FetchIdle
    /\ PipelineIdle
    /\ now = 1
    /\ listing \in FailedFetchListings
    /\ product_limit = 0
    /\ page = 1
    /\ all_urls = <<>>
    /\ fetched = <<>>
    /\ all_product_urls = <<>>
    /\ ItemIdle
    /\ LoopIdle
    /\ store \in {st \in RunStores : \E i \in Ids : st[i] # NoRow}
    /\ store0 = store
    /\ requests = <<>>
    /\ db_client = FALSE
    /\ ReconcileIdle

SpecFailedFetch == InitFailedFetch /\ [][Next]_vars

\* the pages whose fetch failed, and those that gave no link
FailedPages == {k \in DOMAIN listing : ~listing[k].ok}

LinklessPages == {k \in DOMAIN listing : get_products_from_category_page(listing[k]) = <<>>}

\* the listing pages before the first one that gave no link
PagesBeforeStop == {k \in DOMAIN listing : \A j \in LinklessPages : k < j}

UrlsOfPages(ks) == UNION {Range(get_products_from_category_page(listing[k])) : k \in ks}

DiscoverStep == pc = "discover" /\ fetched' # fetched

Discovered == pc \notin {"start", "discover"}

\* C30: a listing page whose fetch failed gives no URL, as a page without
\* links does; the step that meets it ends the discovery without an error:
\* no later page is fetched and the URLs returned are those of the pages
\* before it; the URLs that are only on later pages are not processed, so
\* the ids in successful_product_ids, the list the reconciler is given, all
\* come from URLs of the earlier pages.
C30_FailedFetchEndsDiscovery ==
    /\ [](FailedPages \subseteq LinklessPages)
    /\ [][(DiscoverStep /\ page \in LinklessPages) =>
             /\ pc' = "discovered"
             /\ all_urls' = all_urls
             /\ all_product_urls' = UniqueUrls(all_urls, product_limit)
             /\ fetched' = Append(fetched, page)
             /\ interrupted' = interrupted]_vars
    /\ [](\A k \in Range(fetched) : \A j \in LinklessPages : k <= j)
    /\ [](Discovered => Range(all_product_urls) = UrlsOfPages(PagesBeforeStop))
    /\ [](Range(successful_product_ids) \subseteq
             {ExtractId(u) : u \in UrlsOfPages(PagesBeforeStop)})
    /\ [][(pc = "reconcile" /\ pc' = "delete_bulk") =>
             \A u \in UrlsOfPages(DOMAIN listing) \ UrlsOfPages(PagesBeforeStop) :
                 (ExtractId(u) \in PersistedIds
                    /\ ExtractId(u) \notin {ExtractId(v) : v \in UrlsOfPages(PagesBeforeStop)})
                 => ExtractId(u) \in Range(to_delete')]_vars

\* the fetch of the second page failed; the product of the first page was
\* persisted and the row of a product that is on the third page only was
\* deleted by the reconciler
C30_Witness ==
    /\ pc = "done"
    /\ ~interrupted
    /\ listing = <<DressPage, FailedPage, CoatPage>>
    /\ fetched = <<1, 2>>
    /\ successful_product_ids = <<"otherstories_1">>
    /\ "otherstories_2" \in PersistedIds
    /\ ~HasRow(store, "otherstories_2")

\* the run whose first page failed ends without having found a URL
C30_WitnessFirstPageFailed ==
    /\ pc = "done"
    /\ ~interrupted
    /\ 1 \in FailedPages
    /\ fetched = <<1>>
    /\ all_product_urls = <<>>
    /\ requests = <<>>

\* CategoryScraper.extract_product_urls (SpecCategory): a page the browser
\* failed to load ends the loop; the result is the set of the URLs of the
\* pages before it
C30_BrowserFailedLoadEndsDiscovery ==
    \A k \in DOMAIN listing :
        (~listing[k].loaded /\ k \in Range(fetched)) =>
            /\ pc = "cat_discovered"
            /\ fetched = [j \in 1..k |-> j]
            /\ \A j \in 1..(k - 1) : ~CatPageUnavailable(listing[j])
            /\ Range(all_product_urls) = UNION {PageUrlSet(listing[j]) : j \in 1..(k - 1)}

C30_WitnessBrowser ==
    /\ pc = "cat_discovered"
    /\ ~listing[2].loaded
    /\ fetched = <<1, 2>>
    /\ all_product_urls # <<>>
=============================================================================
